---- MODULE Spec2Model ----
(***************************************************************************)
(* A model of the TCP relay data path of the local-side Shadowsocks proxy: *)
(* the AutoProxyClientStream (bypass-or-proxy decision, in-band DNS        *)
(* sniffer) and the CryptoStream (framing readers and writers).            *)
(***************************************************************************)
EXTENDS Integers, Sequences, FiniteSets, TLC

(***************************************************************************)
(* Bounds of the AutoProxyClientStream model.                              *)
(***************************************************************************)
\* the longest chunk one underlying poll_read delivers
MaxRead == 3
\* the most bytes the model lets para.dnsByte grow to
MaxBuf == 3
\* the most bytes a connection delivers over its life where the model keeps
\* the history of the stream (SniffSpec)
MaxWire == 4
\* the most bytes already in the filled part of the caller's ReadBuf
MaxPre == 1
\* byte values the peer sends (they double as length-prefix bytes)
SniffBytes == {0, 1}

\* port == 53 marks a DNS-over-TCP target
DnsPort == 53
Hosts == {"h1", "h2"}
Ports == {DnsPort, 80}
Targets == [host : Hosts, port : Ports]

RECURSIVE SeqsUpTo(_, _)
SeqsUpTo(S, n) ==
    IF n = 0 THEN {<<>>}
    ELSE LET T == SeqsUpTo(S, n - 1)
         IN  T \cup {Append(t, x) : t \in {u \in T : Len(u) = n - 1}, x \in S}

\* the chunks one underlying read can deliver, the buffers a caller can bring
ReadChunks == SeqsUpTo(SniffBytes, MaxRead)
PreBufs == SeqsUpTo(SniffBytes, MaxPre)

VARIABLES
    aclSome,       \* context.acl holds Some(acl)
    stream,        \* the AutoProxyClientStream: its variant and para.is_dns
    dnsByte,       \* para.dnsByte, the vector behind its mutex
    call,          \* the last connect / connect_bypassed / connect_proxied call
    rpc,           \* where the task reading the stream is inside poll_read
    rd,            \* the last poll_read call: its inputs and what it returned
    aclHolder,     \* who holds context.acl's lock
    dnsHolder,     \* who holds para.dnsByte's lock
    aclLog,        \* the messages handed to acl.check_dns_msg, in order
    wire           \* every byte the underlying stream delivered, in order

autoVars == <<aclSome, stream, dnsByte, call, rpc, rd, aclHolder,
              dnsHolder, aclLog, wire>>

VARIABLES
    snd,           \* the sending side's CryptoStream: method, type, dec, enc
    rcv,           \* the receiving side's CryptoStream
    wbuf,          \* the plaintext the writing caller is still writing
    sock,          \* every byte the sender's socket accepted, in order
    rpos,          \* how many of them the receiver's socket has delivered
    assembled,     \* the plaintext the writer has encrypted so far
    written,       \* the plaintext poll_write_encrypted reported as accepted
    delivered,     \* the plaintext poll_read_decrypted handed to its caller
    encNonces,     \* the nonce counter values the writer sealed records under
    decNonces,     \* the nonce counter values the reader opened records under
    lastW,         \* the last poll_write_encrypted call
    lastR          \* the last poll_read_decrypted call

cryptoVars == <<snd, rcv, wbuf, sock, rpos, assembled, written, delivered,
                encNonces, decNonces, lastW, lastR>>

VARIABLES
    tamperAt,      \* the wire position of the byte altered in transit, 0: none
    records,       \* the payload length of every record the sender sealed
    wireEof,       \* the sender's socket is closed: the wire ends where it is
    forge,         \* the record with a length field of the peer's choosing
    pcs,           \* the ProxyClientStream over snd: its state and buffer
    sndHalves,     \* the two halves of snd after into_split
    rcvHalves,     \* the two halves of rcv after into_split
    shuttle,       \* the relay copier's two shuttles
    shutdowns,     \* the shutdowns issued on each side's write half
    copier         \* the relay copier as a whole

faultVars == <<tamperAt, records, wireEof, forge>>
proxyVars == <<pcs>>
splitVars == <<sndHalves, rcvHalves>>
copyVars == <<shuttle, shutdowns, copier>>
extVars == <<faultVars, proxyVars, splitVars, copyVars>>

VARIABLES
    workers,       \* the threads of the runtime that poll tasks, 0: no runtime
    echo,          \* what the last set_request_nonce_with_received returned
    launch,        \* the launcher's main: where it is, the runtime mode
    chan,          \* the values sent on the stop channel and not yet received
    senders,       \* the senders of the stop channel that are alive
    serverTask,     \* the server task spawned by main
    builder,       \* the TunnelBuilder
    tunnel         \* what TunnelBuilder::build returned

svcVars == <<workers, echo, launch, chan, senders, serverTask, builder, tunnel>>

vars == <<autoVars, cryptoVars, extVars, svcVars>>

(***************************************************************************)
(* AutoProxyClientStream: connecting.                                      *)
(***************************************************************************)
NoStream == [variant |-> "None", is_dns |-> FALSE]

NoCall == [op |-> "none", target |-> [host |-> "h1", port |-> 80], ok |-> FALSE,
           evals |-> 0, direct |-> 0, proxied |-> 0, reports |-> 0, result |-> "none"]

\* the ACL's bypass predicate: it bypasses the hosts of BypassHosts
BypassHosts == {"h1"}

check_target_bypassed(addr) == addr.host \in BypassHosts

\* a para that takes every target for a DNS one and starts with a used buffer
ProxyPara_default_dns(isdns) == [is_dns |-> TRUE, dnsByte |-> <<0>>]

ProxyPara_default(isdns) == [is_dns |-> isdns, dnsByte |-> <<>>]

\* what a connect call did: the stream it returned (or the error), the direct
\* and the proxied connections it opened, the report_failure calls it made
connect_bypassed(addr, ok) ==
    IF ok
    THEN [result |-> "Ok", variant |-> "Bypassed",
          para |-> ProxyPara_default(addr.port = DnsPort),
          direct |-> 1, proxied |-> 0, reports |-> 0]
    ELSE [result |-> "Err", variant |-> "None", para |-> ProxyPara_default(FALSE),
          direct |-> 1, proxied |-> 0, reports |-> 0]

\* a connect_proxied that forgets to report the failure
connect_proxied_silent(addr, ok) ==
    [result |-> IF ok THEN "Ok" ELSE "Err", variant |-> IF ok THEN "Proxied" ELSE "None",
     para |-> ProxyPara_default(ok /\ addr.port = DnsPort),
     direct |-> 0, proxied |-> 1, reports |-> 0]

connect_proxied(addr, ok) ==
    IF ok
    THEN [result |-> "Ok", variant |-> "Proxied",
          para |-> ProxyPara_default(addr.port = DnsPort),
          direct |-> 0, proxied |-> 1, reports |-> 0]
    ELSE [result |-> "Err", variant |-> "None", para |-> ProxyPara_default(FALSE),
          direct |-> 0, proxied |-> 1, reports |-> 1]

\* a connect that falls back to the proxy when the direct connection fails
connect_fallback(addr, ok) ==
    LET r == IF check_target_bypassed(addr) /\ ok
             THEN connect_bypassed(addr, ok)
             ELSE [connect_proxied(addr, ok) EXCEPT
                       !.direct = IF check_target_bypassed(addr) THEN 1 ELSE 0]
    IN  r @@ [evals |-> 1]

\* evals counts the evaluations of the ACL bypass predicate
connect(addr, ok) ==
    LET r == IF check_target_bypassed(addr)
             THEN connect_bypassed(addr, ok)
             ELSE connect_proxied(addr, ok)
    IN  r @@ [evals |-> 1]

is_proxied(s) == s.variant = "Proxied"

Install(op, addr, ok, r, evals) ==
    /\ stream' = [variant |-> r.variant, is_dns |-> r.para.is_dns]
    /\ dnsByte' = r.para.dnsByte
    /\ call' = [op |-> op, target |-> addr, ok |-> ok, evals |-> evals,
                direct |-> r.direct,
                proxied |-> r.proxied, reports |-> r.reports, result |-> r.result]
    /\ UNCHANGED <<aclSome, rpc, rd, aclHolder, dnsHolder, aclLog, wire>>
    /\ UNCHANGED cryptoVars
    /\ UNCHANGED extVars
    /\ UNCHANGED svcVars

Connect ==
    /\ stream.variant = "None"
    /\ \E addr \in Targets, ok \in BOOLEAN :
           LET r == connect(addr, ok) IN Install("connect", addr, ok, r, r.evals)

ConnectBypassed ==
    /\ stream.variant = "None"
    /\ \E addr \in Targets, ok \in BOOLEAN :
           Install("connect_bypassed", addr, ok, connect_bypassed(addr, ok), 0)

ConnectProxied ==
    /\ stream.variant = "None"
    /\ \E addr \in Targets, ok \in BOOLEAN :
           Install("connect_proxied", addr, ok, connect_proxied(addr, ok), 0)

(***************************************************************************)
(* AutoProxyClientStream: poll_read and the DNS sniffer.                   *)
(***************************************************************************)
\* len: u16 = ((lenbyte[0] as u16) << 2) + (lenbyte[1] as u16)
dns_len(b0, b1) == (((b0 * 4) % 65536) + b1) % 65536

\* &data[2..(s + 2)] panics when the range ends past the data
slice_panics(data) == dns_len(data[1], data[2]) + 2 > Len(data)

dns_payload(data) == SubSeq(data, 3, dns_len(data[1], data[2]) + 2)

\* a sniffer that runs whatever the read returned and whatever the stream is
sniffs_any(s, under, filled) == Len(filled) > 2

\* the sniffer runs on a Ready(Ok) of a port-53 stream whose buffer holds
\* more than 2 filled bytes
sniffs(s, under, filled) == under = "Ok" /\ s.is_dns /\ Len(filled) > 2

NoRead == [under |-> "none", pre |-> <<>>, data |-> <<>>, filled |-> <<>>,
           result |-> "none", sniffed |-> FALSE, len |-> 0, byte0 |-> <<>>,
           handed |-> <<>>, fed |-> <<>>, appended |-> <<>>, answered |-> FALSE]

\* the part of check_dns_msg that runs under both locks: the ACL sees the
\* accumulated buffer and empties it when it answers
\* an ACL step that keeps the buffer when the ACL has answered
acl_check_keep(byte, ans) ==
    IF aclSome
    THEN [handed |-> <<byte>>, byte |-> byte, answered |-> ans]
    ELSE [handed |-> <<>>, byte |-> byte, answered |-> FALSE]

acl_check(byte, ans) ==
    IF aclSome
    THEN [handed |-> <<byte>>, byte |-> IF ans THEN <<>> ELSE byte, answered |-> ans]
    ELSE [handed |-> <<>>, byte |-> byte, answered |-> FALSE]

\* poll_read: under is what the variant's poll_read returned, pre the bytes
\* already filled in the caller's buffer, data the bytes it added, ans the
\* ACL's answer should it be asked; fed is the vector nd handed to
\* check_dns_msg, appended what check_dns_msg appended to para.dnsByte
poll_read(under, pre, data, ans) ==
    LET filled == pre \o data
        sniff == sniffs(stream, under, filled)
        call0 == [under |-> under, pre |-> pre, data |-> data, filled |-> filled,
                  result |-> under, sniffed |-> sniff,
                  len |-> IF sniff THEN dns_len(filled[1], filled[2]) ELSE 0,
                  byte0 |-> dnsByte, handed |-> <<>>,
                  fed |-> IF sniff THEN filled ELSE <<>>, appended |-> <<>>,
                  answered |-> FALSE]
    IN  IF ~sniff
        THEN /\ rd' = call0
             /\ UNCHANGED <<rpc, dnsByte, aclHolder, dnsHolder>>
        ELSE IF slice_panics(filled)
        THEN /\ rd' = [call0 EXCEPT !.result = "Panic"]
             /\ rpc' = "panicked"
             /\ UNCHANGED <<dnsByte, aclHolder, dnsHolder>>
        ELSE LET byte == dnsByte \o dns_payload(filled)
             IN  IF aclHolder = "none"
                 THEN LET c == acl_check(byte, ans)
                      IN  /\ dnsByte' = c.byte
                          /\ rd' = [call0 EXCEPT !.handed = c.handed,
                                                  !.appended = dns_payload(filled),
                                                  !.answered = c.answered]
                          /\ UNCHANGED <<rpc, aclHolder, dnsHolder>>
                 ELSE /\ dnsByte' = byte
                      /\ dnsHolder' = "reader"
                      /\ rpc' = "blocked_acl"
                      /\ rd' = [call0 EXCEPT !.result = "none",
                                              !.appended = dns_payload(filled)]
                      /\ UNCHANGED aclHolder

\* block_on returns once the ACL lock is free: the rest of check_dns_msg
poll_read_resume(ans) ==
    LET c == acl_check(dnsByte, ans)
    IN  /\ dnsByte' = c.byte
        /\ dnsHolder' = "none"
        /\ rpc' = "idle"
        /\ rd' = [rd EXCEPT !.result = rd.under, !.handed = c.handed,
                             !.answered = c.answered]
        /\ UNCHANGED aclHolder

PollRead ==
    /\ stream.variant # "None"
    /\ rpc = "idle"
    /\ \E under \in {"Ok", "Err", "Pending"}, pre \in PreBufs :
       \E data \in (IF under = "Ok" THEN ReadChunks ELSE {<<>>}),
          ans \in (IF under = "Ok" THEN BOOLEAN ELSE {FALSE}) :
           /\ Len(dnsByte) + Len(pre) + Len(data) <= MaxBuf + 2
           /\ poll_read(under, pre, data, ans)
    /\ call' = NoCall
    /\ UNCHANGED <<aclSome, stream, aclLog, wire>>
    /\ UNCHANGED cryptoVars
    /\ UNCHANGED extVars
    /\ UNCHANGED svcVars

PollReadResume ==
    /\ rpc = "blocked_acl"
    /\ aclHolder = "none"
    /\ \E ans \in BOOLEAN : poll_read_resume(ans)
    /\ UNCHANGED <<aclSome, stream, call, aclLog, wire>>
    /\ UNCHANGED cryptoVars
    /\ UNCHANGED extVars
    /\ UNCHANGED svcVars

\* another connection's sniffer takes and releases the shared ACL lock
OtherAcquireAcl ==
    /\ aclHolder = "none"
    /\ rpc = "idle"
    /\ aclHolder' = "other"
    /\ UNCHANGED <<aclSome, stream, dnsByte, call, rpc, rd, dnsHolder, aclLog, wire>>
    /\ UNCHANGED cryptoVars
    /\ UNCHANGED extVars
    /\ UNCHANGED svcVars

OtherReleaseAcl ==
    /\ aclHolder = "other"
    /\ aclHolder' = "none"
    /\ UNCHANGED <<aclSome, stream, dnsByte, call, rpc, rd, dnsHolder, aclLog, wire>>
    /\ UNCHANGED cryptoVars
    /\ UNCHANGED extVars
    /\ UNCHANGED svcVars

(***************************************************************************)
(* AutoProxyClientStream: the operations that only delegate. Each gives    *)
(* back what the variant's stream returned (under) and leaves the stream   *)
(* and para.dnsByte as they are.                                           *)
(***************************************************************************)
local_addr(s, byte, under) == [stream |-> s, dnsByte |-> byte, result |-> under]

set_nodelay(s, byte, under) == [stream |-> s, dnsByte |-> byte, result |-> under]

poll_write(s, byte, under) == [stream |-> s, dnsByte |-> byte, result |-> under]

poll_flush(s, byte, under) == [stream |-> s, dnsByte |-> byte, result |-> under]

\* a shutdown that lets go of the proxied stream and empties the buffer
poll_shutdown_unwrap(s, byte, under) ==
    [stream |-> [s EXCEPT !.variant = "Bypassed"], dnsByte |-> <<>>, result |-> under]

poll_shutdown(s, byte, under) == [stream |-> s, dnsByte |-> byte, result |-> under]

poll_write_vectored(s, byte, under) ==
    [stream |-> s, dnsByte |-> byte, result |-> under]

\* call and rd hold the last operation on the stream
Delegated(op, r) ==
    /\ stream' = r.stream
    /\ dnsByte' = r.dnsByte
    /\ call' = [NoCall EXCEPT !.op = op, !.result = r.result]
    /\ rd' = NoRead
    /\ UNCHANGED <<aclSome, rpc, aclHolder, dnsHolder, aclLog, wire>>
    /\ UNCHANGED cryptoVars
    /\ UNCHANGED extVars
    /\ UNCHANGED svcVars

LocalAddr ==
    /\ stream.variant # "None"
    /\ rpc = "idle"
    /\ \E under \in {"Ok", "Err"} :
           Delegated("local_addr", local_addr(stream, dnsByte, under))

SetNodelay ==
    /\ stream.variant # "None"
    /\ rpc = "idle"
    /\ \E under \in {"Ok", "Err"} :
           Delegated("set_nodelay", set_nodelay(stream, dnsByte, under))

PollWrite ==
    /\ stream.variant # "None"
    /\ rpc = "idle"
    /\ \E under \in {"Ok", "Err", "Pending"} :
           Delegated("poll_write", poll_write(stream, dnsByte, under))

PollFlush ==
    /\ stream.variant # "None"
    /\ rpc = "idle"
    /\ \E under \in {"Ok", "Err", "Pending"} :
           Delegated("poll_flush", poll_flush(stream, dnsByte, under))

PollShutdown ==
    /\ stream.variant # "None"
    /\ rpc = "idle"
    /\ \E under \in {"Ok", "Err", "Pending"} :
           Delegated("poll_shutdown", poll_shutdown(stream, dnsByte, under))

PollWriteVectored ==
    /\ stream.variant # "None"
    /\ rpc = "idle"
    /\ \E under \in {"Ok", "Err", "Pending"} :
           Delegated("poll_write_vectored", poll_write_vectored(stream, dnsByte, under))

(***************************************************************************)
(* CryptoStream: bounds and the model cipher.                              *)
(***************************************************************************)
\* the most plaintext bytes a caller writes on a connection
MaxPlain == 2
\* the longest buf a caller passes to poll_write_encrypted
MaxWrite == 2
\* the largest room left in the ReadBuf a caller passes to poll_read_decrypted
MaxOut == 2
\* plaintext byte values
PlainBytes == {7, 200}
\* how many bytes the socket takes, or has ready, within one poll call
SockCaps == {0, 1, 64}
\* the values the random generator behind generate_nonce starts from
NonceSeeds == {10}

\* the cipher categories; a CipherKind is modelled by its category
Categories == {"None", "Stream", "Aead", "Aead2022"}
StreamTypes == {"Client", "Server"}

\* lengths of the model's ciphers: method.iv_len(), salt_len(), tag_len()
IvLen == 2
SaltLen == 2
TagLen == 1
\* the largest payload of one AEAD record
MAX_PACKET_SIZE == 16383
\* the pre-shared master key
Key == 41
\* the time an AEAD-2022 header is stamped with and checked against
Timestamp == 100

Min(a, b) == IF a < b THEN a ELSE b

RECURSIVE SumSeq(_)
SumSeq(s) == IF s = <<>> THEN 0 ELSE Head(s) + SumSeq(Tail(s))

iv_len(method) == IF method = "Stream" THEN IvLen ELSE 0
salt_len(method) == IF method \in {"Aead", "Aead2022"} THEN SaltLen ELSE 0

\* the keystream byte of a stream cipher at offset i
keystream(key, iv, i) == (key + 3 * SumSeq(iv) + 5 * i + 1) % 256

stream_encrypt(key, iv, off, pt) ==
    [i \in 1..Len(pt) |-> (pt[i] + keystream(key, iv, off + i)) % 256]

stream_decrypt(key, iv, off, ct) ==
    [i \in 1..Len(ct) |-> (ct[i] + 256 - keystream(key, iv, off + i)) % 256]

\* the per-connection subkey: HKDF-SHA1(master, salt, "ss-subkey")
kdf(key, salt) == (key + 7 * SumSeq(salt) + 1) % 256

aead_tag(subkey, nonce, pt) ==
    [j \in 1..TagLen |-> (SumSeq(pt) + subkey + 3 * nonce + j) % 256]

\* ciphertext followed by the tag
aead_seal(subkey, nonce, pt) ==
    [i \in 1..Len(pt) |-> (pt[i] + subkey + nonce + i) % 256]
        \o aead_tag(subkey, nonce, pt)

aead_open(subkey, nonce, ct) ==
    LET n == Len(ct) - TagLen
        pt == [i \in 1..n |-> (ct[i] + 768 - ((subkey + nonce + i) % 256)) % 256]
    IN  IF SubSeq(ct, n + 1, Len(ct)) = aead_tag(subkey, nonce, pt)
        THEN [ok |-> TRUE, pt |-> pt]
        ELSE [ok |-> FALSE, pt |-> <<>>]

\* a record's length as 2 big-endian bytes, and back (masked to 14 bits)
len_bytes(n) == <<n \div 256, n % 256>>
len_value(b) == (b[1] * 256 + b[2]) % 16384

\* context.generate_nonce(method, out, true): out filled from the generator
generate_nonce(seed, len) == [i \in 1..len |-> (seed + 16 * i) % 256]

NoNonce == [some |-> FALSE, val |-> <<>>]
SomeNonce(v) == [some |-> TRUE, val |-> v]

(***************************************************************************)
(* The framing writers of the three cipher families.                       *)
(***************************************************************************)
NoWriter == [kind |-> "None", ty |-> "Client", salt |-> <<>>, subkey |-> 0,
             buffer |-> <<>>, pos |-> 0, state |-> "Assemble", nonce |-> 0,
             off |-> 0, pktlen |-> 0, request_salt |-> NoNonce, header |-> FALSE]

WriteRet(w, res, n, out, taken, nonces) ==
    [w |-> w, res |-> res, n |-> n, out |-> out, taken |-> taken, nonces |-> nonces]

\* faulty variant: a resumed flush starts again from the head of the buffer
write_buffer_restart(w, cap, taken, nonces) ==
    LET k == Min(cap, Len(w.buffer))
        out == SubSeq(w.buffer, 1, k)
    IN  IF k = Len(w.buffer)
        THEN WriteRet([w EXCEPT !.buffer = <<>>, !.pos = 0, !.state = "Assemble"],
                      "Ok", w.pktlen, out, taken, nonces)
        ELSE WriteRet([w EXCEPT !.pos = k, !.state = "Writing"],
                      "Pending", 0, out, taken, nonces)

\* the Writing state: the buffer goes to the socket from pos on; the socket
\* takes cap bytes before it returns Pending
write_buffer(w, cap, taken, nonces) ==
    LET k == Min(cap, Len(w.buffer) - w.pos)
        out == SubSeq(w.buffer, w.pos + 1, w.pos + k)
    IN  IF w.pos + k = Len(w.buffer)
        THEN WriteRet([w EXCEPT !.buffer = <<>>, !.pos = 0, !.state = "Assemble"],
                      "Ok", w.pktlen, out, taken, nonces)
        ELSE WriteRet([w EXCEPT !.pos = @ + k, !.state = "Writing"],
                      "Pending", 0, out, taken, nonces)

\* stream family: the IV waits in the buffer from construction on
StreamEncryptedWriter_new(method, key, nonce) ==
    [NoWriter EXCEPT !.kind = "Stream", !.salt = nonce, !.buffer = nonce]

StreamEncryptedWriter_poll_write_encrypted(w, buf, cap) ==
    IF w.state = "Writing"
    THEN write_buffer(w, cap, <<>>, <<>>)
    ELSE LET a == [w EXCEPT !.buffer = @ \o stream_encrypt(Key, w.salt, w.off, buf),
                            !.off = @ + Len(buf), !.pktlen = Len(buf), !.pos = 0]
         IN  write_buffer(a, cap, buf, <<>>)

\* AEAD family: the salt waits in the buffer; one record per call
AeadEncryptedWriter_new(method, key, nonce) ==
    [NoWriter EXCEPT !.kind = "Aead", !.salt = nonce, !.buffer = nonce,
                     !.subkey = kdf(key, nonce)]

\* a writer that seals both chunks of a record under one nonce
seal_record_reuse(subkey, nonce, first, data) ==
    [bytes |-> aead_seal(subkey, nonce, first) \o aead_seal(subkey, nonce, data),
     nonces |-> <<nonce, nonce>>, next |-> nonce + 1]

\* one record: the first chunk (a length, or a header) sealed under the
\* nonce counter, the payload under the next value
seal_record(subkey, nonce, first, data) ==
    [bytes |-> aead_seal(subkey, nonce, first) \o aead_seal(subkey, nonce + 1, data),
     nonces |-> <<nonce, nonce + 1>>, next |-> nonce + 2]

AeadEncryptedWriter_poll_write_encrypted(w, buf, cap) ==
    IF w.state = "Writing"
    THEN write_buffer(w, cap, <<>>, <<>>)
    ELSE LET data == SubSeq(buf, 1, Min(Len(buf), MAX_PACKET_SIZE))
             r == seal_record(w.subkey, w.nonce, len_bytes(Len(data)), data)
             a == [w EXCEPT !.buffer = @ \o r.bytes, !.nonce = r.next,
                            !.pktlen = Len(data), !.pos = 0]
         IN  write_buffer(a, cap, data, r.nonces)

\* AEAD-2022 family: the first call seals a header (type, timestamp, for a
\* server stream the request salt, the length of the first payload) and the
\* payload; later calls seal a length and a payload as the AEAD family does
Aead2022EncryptedWriter_new(stream_ty, method, key, nonce) ==
    [NoWriter EXCEPT !.kind = "Aead2022", !.ty = stream_ty, !.salt = nonce,
                     !.buffer = nonce, !.subkey = kdf(key, nonce)]

Aead2022EncryptedWriter_set_request_salt(w, request_salt) ==
    [w EXCEPT !.request_salt = SomeNonce(request_salt)]

stream_type_byte(ty) == IF ty = "Client" THEN 0 ELSE 1

aead2022_header(w, data) ==
    <<stream_type_byte(w.ty), Timestamp>>
        \o (IF w.ty = "Server" THEN w.request_salt.val ELSE <<>>)
        \o len_bytes(Len(data))

Aead2022EncryptedWriter_poll_write_encrypted(w, buf, cap) ==
    IF w.state = "Writing"
    THEN write_buffer(w, cap, <<>>, <<>>)
    ELSE IF ~w.header /\ w.ty = "Server" /\ ~w.request_salt.some
    THEN WriteRet(w, "NotPermitted", 0, <<>>, <<>>, <<>>)
    ELSE LET data == SubSeq(buf, 1, Min(Len(buf), MAX_PACKET_SIZE))
             first == IF w.header THEN len_bytes(Len(data)) ELSE aead2022_header(w, data)
             r == seal_record(w.subkey, w.nonce, first, data)
             a == [w EXCEPT !.buffer = @ \o r.bytes, !.nonce = r.next,
                            !.pktlen = Len(data), !.pos = 0, !.header = TRUE]
         IN  write_buffer(a, cap, data, r.nonces)

StreamEncryptedWriter_iv(w) == w.salt
AeadEncryptedWriter_salt(w) == w.salt
Aead2022EncryptedWriter_salt(w) == w.salt

(***************************************************************************)
(* The framing readers of the three cipher families.                       *)
(***************************************************************************)
NoReader == [kind |-> "None", ty |-> "Client", state |-> "Established",
             salt |-> NoNonce, subkey |-> 0, buffer |-> <<>>, want |-> 0,
             plain |-> <<>>, pos |-> 0, nonce |-> 0, off |-> 0, chunks |-> 0,
             request_salt |-> NoNonce, err |-> "none"]

ReadRet(d, res, out, rest, nonces) ==
    [d |-> d, res |-> res, out |-> out, rest |-> rest, nonces |-> nonces]

\* read_exact into the reader's buffer: what the buffer holds once the bytes
\* at hand are used, what is left of them, and whether the unit is complete
take(d, bytes) ==
    LET k == Min(d.want - Len(d.buffer), Len(bytes))
    IN  [buffer |-> d.buffer \o SubSeq(bytes, 1, k),
         rest |-> SubSeq(bytes, k + 1, Len(bytes)),
         done |-> Len(d.buffer) + k = d.want]

\* a fatal error: the reader drops what it holds and fails from now on
Poisoned(d, kind) ==
    [d EXCEPT !.state = "Poisoned", !.buffer = <<>>, !.plain = <<>>, !.pos = 0,
              !.err = kind]

\* a reader that reports every end of stream as a clean one
short_read_lenient(d, t, eof, nonces) ==
    IF ~eof
    THEN ReadRet([d EXCEPT !.buffer = t.buffer], "Pending", <<>>, t.rest, nonces)
    ELSE ReadRet(d, "Ok", <<>>, t.rest, nonces)

\* the unit being read is incomplete and the bytes at hand are used up: the
\* reader waits, or at the end of the stream reports a clean EOF when not one
\* byte of a frame has arrived, and UnexpectedEof inside a frame
short_read(d, t, eof, nonces) ==
    IF ~eof
    THEN ReadRet([d EXCEPT !.buffer = t.buffer], "Pending", <<>>, t.rest, nonces)
    ELSE IF t.buffer = <<>> /\ d.state \in {"WaitIv", "WaitSalt", "ReadHeader", "ReadLength"}
    THEN ReadRet(d, "Ok", <<>>, t.rest, nonces)
    ELSE ReadRet(Poisoned(d, "UnexpectedEof"), "Err", <<>>, t.rest, nonces)

\* stream family: the IV first, then every wire byte is one plaintext byte
StreamDecryptedReader_new(method, key) ==
    [NoReader EXCEPT !.kind = "Stream", !.state = "WaitIv", !.want = iv_len(method)]

StreamDecryptedReader_poll_read_decrypted(d, bytes, cap, eof) ==
    CASE d.state = "Poisoned" -> ReadRet(d, "Err", <<>>, bytes, <<>>)
      [] d.state = "WaitIv" ->
            LET t == take(d, bytes)
            IN  IF ~t.done
                THEN short_read(d, t, eof, <<>>)
                ELSE LET e == [d EXCEPT !.salt = SomeNonce(t.buffer), !.buffer = <<>>,
                                        !.state = "Established"]
                         k == Min(cap, Len(t.rest))
                     IN  IF k = 0
                         THEN ReadRet(e, IF eof THEN "Ok" ELSE "Pending", <<>>, t.rest, <<>>)
                         ELSE ReadRet([e EXCEPT !.off = k], "Ok",
                                      stream_decrypt(Key, t.buffer, 0, SubSeq(t.rest, 1, k)),
                                      SubSeq(t.rest, k + 1, Len(t.rest)), <<>>)
      [] OTHER ->
            LET k == Min(cap, Len(bytes))
            IN  IF k = 0
                THEN ReadRet(d, IF eof THEN "Ok" ELSE "Pending", <<>>, bytes, <<>>)
                ELSE ReadRet([d EXCEPT !.off = @ + k], "Ok",
                             stream_decrypt(Key, d.salt.val, d.off, SubSeq(bytes, 1, k)),
                             SubSeq(bytes, k + 1, Len(bytes)), <<>>)

\* AEAD family: salt, then records of a sealed length and a sealed payload
AeadDecryptedReader_new(method, key) ==
    [NoReader EXCEPT !.kind = "Aead", !.state = "WaitSalt", !.want = salt_len(method)]

\* AEAD-2022 family: salt, a sealed header, the first payload, then records
Aead2022DecryptedReader_new(stream_ty, method, key) ==
    [NoReader EXCEPT !.kind = "Aead2022", !.ty = stream_ty, !.state = "WaitSalt",
                     !.want = salt_len(method)]

\* the header a reader of stream type ty expects is the peer's: a client
\* reads a server header, which carries the request salt
header_len(ty) == IF ty = "Client" THEN 4 + SaltLen ELSE 4

header_check(d, h) ==
    LET server == d.ty = "Client"
        n == len_value(SubSeq(h, Len(h) - 1, Len(h)))
    IN  [ok |-> /\ h[1] = (IF server THEN 1 ELSE 0)
                /\ h[2] = Timestamp
                /\ n >= 1 /\ n <= MAX_PACKET_SIZE,
         request_salt |-> IF server THEN SomeNonce(SubSeq(h, 3, 2 + SaltLen)) ELSE NoNonce,
         len |-> n]

\* a reader that takes any length the field decodes to
length_ok_any(n) == TRUE

\* the length of a record's payload must be 1..0x3FFF
length_ok(n) == n >= 1 /\ n <= MAX_PACKET_SIZE

\* a reader that hands over what it decrypted whatever the tag says
aead_verify_skip(subkey, nonce, ct) ==
    LET n == Len(ct) - TagLen
    IN  [ok |-> TRUE,
         pt |-> [i \in 1..n |-> (ct[i] + 768 - ((subkey + nonce + i) % 256)) % 256]]

\* the reader's decryption of one chunk
aead_verify(subkey, nonce, ct) == aead_open(subkey, nonce, ct)

\* a reader that goes on to the next record while plaintext is left over
leftover_skip(d) == FALSE

\* plaintext of the last record is still to be handed over
leftover(d) == d.pos < Len(d.plain)

RECURSIVE aead_read(_, _, _, _, _)
aead_read(d, bytes, cap, eof, nonces) ==
    CASE d.state = "Poisoned" -> ReadRet(d, "Err", <<>>, bytes, nonces)
      [] d.state = "Buffered" ->
            IF leftover(d)
            THEN LET k == Min(cap, Len(d.plain) - d.pos)
                 IN  ReadRet([d EXCEPT !.pos = @ + k], "Ok",
                             SubSeq(d.plain, d.pos + 1, d.pos + k), bytes, nonces)
            ELSE aead_read([d EXCEPT !.state = "ReadLength", !.plain = <<>>, !.pos = 0,
                                     !.buffer = <<>>, !.want = 2 + TagLen],
                           bytes, cap, eof, nonces)
      [] OTHER ->
            LET t == take(d, bytes)
            IN  IF ~t.done
                THEN short_read(d, t, eof, nonces)
                ELSE CASE d.state = "WaitSalt" ->
                            aead_read([d EXCEPT !.salt = SomeNonce(t.buffer),
                                                !.subkey = kdf(Key, t.buffer),
                                                !.buffer = <<>>,
                                                !.state = IF d.kind = "Aead2022"
                                                          THEN "ReadHeader" ELSE "ReadLength",
                                                !.want = IF d.kind = "Aead2022"
                                                         THEN header_len(d.ty) + TagLen
                                                         ELSE 2 + TagLen],
                                      t.rest, cap, eof, nonces)
                       [] d.state = "ReadHeader" ->
                            LET o == aead_verify(d.subkey, d.nonce, t.buffer)
                                h == header_check(d, o.pt)
                            IN  IF ~o.ok \/ ~h.ok
                                THEN ReadRet(Poisoned(d, "CryptoAuth"), "Err", <<>>, t.rest,
                                             Append(nonces, d.nonce))
                                ELSE aead_read([d EXCEPT !.request_salt = h.request_salt,
                                                         !.nonce = @ + 1, !.buffer = <<>>,
                                                         !.state = "ReadData",
                                                         !.want = h.len + TagLen],
                                               t.rest, cap, eof, Append(nonces, d.nonce))
                       [] d.state = "ReadLength" ->
                            LET o == aead_verify(d.subkey, d.nonce, t.buffer)
                                n == len_value(o.pt)
                            IN  IF ~o.ok
                                THEN ReadRet(Poisoned(d, "CryptoAuth"), "Err", <<>>, t.rest,
                                             Append(nonces, d.nonce))
                                ELSE IF ~length_ok(n)
                                THEN ReadRet(Poisoned(d, "ProtocolFraming"), "Err", <<>>,
                                             t.rest, Append(nonces, d.nonce))
                                ELSE aead_read([d EXCEPT !.nonce = @ + 1, !.buffer = <<>>,
                                                         !.state = "ReadData",
                                                         !.want = n + TagLen],
                                               t.rest, cap, eof, Append(nonces, d.nonce))
                       [] d.state = "ReadData" ->
                            LET o == aead_verify(d.subkey, d.nonce, t.buffer)
                            IN  IF ~o.ok
                                THEN ReadRet(Poisoned(d, "CryptoAuth"), "Err", <<>>, t.rest,
                                             Append(nonces, d.nonce))
                                ELSE aead_read([d EXCEPT !.nonce = @ + 1, !.buffer = <<>>,
                                                         !.plain = o.pt, !.pos = 0,
                                                         !.chunks = @ + 1,
                                                         !.state = "Buffered"],
                                               t.rest, cap, eof, Append(nonces, d.nonce))

AeadDecryptedReader_poll_read_decrypted(d, bytes, cap, eof) ==
    aead_read(d, bytes, cap, eof, <<>>)

Aead2022DecryptedReader_poll_read_decrypted(d, bytes, cap, eof) ==
    aead_read(d, bytes, cap, eof, <<>>)

StreamDecryptedReader_iv(d) == d.salt
AeadDecryptedReader_salt(d) == d.salt
Aead2022DecryptedReader_salt(d) == d.salt
Aead2022DecryptedReader_request_salt(d) == d.request_salt

(***************************************************************************)
(* DecryptedReader, EncryptedWriter and CryptoStream.                      *)
(***************************************************************************)
DecryptedReader_new(stream_ty, method, key) ==
    CASE method = "Stream" -> StreamDecryptedReader_new(method, key)
      [] method = "Aead" -> AeadDecryptedReader_new(method, key)
      [] method = "None" -> NoReader
      [] method = "Aead2022" -> Aead2022DecryptedReader_new(stream_ty, method, key)

\* a dispatch that sends every cipher's wire bytes through the pass-through arm
DecryptedReader_poll_read_decrypted_raw(d, bytes, cap, eof) ==
    LET k == Min(cap, Len(bytes))
    IN  IF k = 0
        THEN ReadRet(d, IF eof THEN "Ok" ELSE "Pending", <<>>, bytes, <<>>)
        ELSE ReadRet(d, "Ok", SubSeq(bytes, 1, k), SubSeq(bytes, k + 1, Len(bytes)), <<>>)

\* bytes: what the underlying stream has ready; cap: the room in the caller's
\* buffer; eof: the stream ends after these bytes. With the None cipher the
\* stream's own poll_read fills the buffer
DecryptedReader_poll_read_decrypted(d, bytes, cap, eof) ==
    CASE d.kind = "Stream" -> StreamDecryptedReader_poll_read_decrypted(d, bytes, cap, eof)
      [] d.kind = "Aead" -> AeadDecryptedReader_poll_read_decrypted(d, bytes, cap, eof)
      [] d.kind = "None" ->
            LET k == Min(cap, Len(bytes))
            IN  IF k = 0
                THEN ReadRet(d, IF eof THEN "Ok" ELSE "Pending", <<>>, bytes, <<>>)
                ELSE ReadRet(d, "Ok", SubSeq(bytes, 1, k),
                             SubSeq(bytes, k + 1, Len(bytes)), <<>>)
      [] d.kind = "Aead2022" -> Aead2022DecryptedReader_poll_read_decrypted(d, bytes, cap, eof)

\* a nonce() that reports whatever the reader has buffered so far
DecryptedReader_nonce_early(d) ==
    IF d.kind = "None" THEN SomeNonce(<<>>)
    ELSE IF d.salt.some THEN d.salt ELSE SomeNonce(d.buffer)

DecryptedReader_nonce(d) ==
    CASE d.kind = "Stream" -> StreamDecryptedReader_iv(d)
      [] d.kind = "Aead" -> AeadDecryptedReader_salt(d)
      [] d.kind = "None" -> NoNonce
      [] d.kind = "Aead2022" -> Aead2022DecryptedReader_salt(d)

DecryptedReader_request_nonce(d) ==
    CASE d.kind = "Stream" -> NoNonce
      [] d.kind = "Aead" -> NoNonce
      [] d.kind = "None" -> NoNonce
      [] d.kind = "Aead2022" -> Aead2022DecryptedReader_request_salt(d)

\* a constructor that hands the writers an empty nonce
EncryptedWriter_new_no_nonce(stream_ty, method, key, nonce) ==
    CASE method = "Stream" -> StreamEncryptedWriter_new(method, key, <<>>)
      [] method = "Aead" -> AeadEncryptedWriter_new(method, key, <<>>)
      [] method = "None" -> NoWriter
      [] method = "Aead2022" -> Aead2022EncryptedWriter_new(stream_ty, method, key, <<>>)

EncryptedWriter_new(stream_ty, method, key, nonce) ==
    CASE method = "Stream" -> StreamEncryptedWriter_new(method, key, nonce)
      [] method = "Aead" -> AeadEncryptedWriter_new(method, key, nonce)
      [] method = "None" -> NoWriter
      [] method = "Aead2022" -> Aead2022EncryptedWriter_new(stream_ty, method, key, nonce)

\* a dispatch that sends AEAD plaintext through the pass-through arm
EncryptedWriter_poll_write_encrypted_raw(w, buf, cap) ==
    LET k == Min(cap, Len(buf))
    IN  IF k = 0
        THEN WriteRet(w, "Pending", 0, <<>>, <<>>, <<>>)
        ELSE WriteRet(w, "Ok", k, SubSeq(buf, 1, k), SubSeq(buf, 1, k), <<>>)

\* cap: how many bytes the underlying stream takes before it returns Pending.
\* With the None cipher the stream's own poll_write takes the plaintext
EncryptedWriter_poll_write_encrypted(w, buf, cap) ==
    CASE w.kind = "Stream" -> StreamEncryptedWriter_poll_write_encrypted(w, buf, cap)
      [] w.kind = "Aead" -> AeadEncryptedWriter_poll_write_encrypted(w, buf, cap)
      [] w.kind = "None" ->
            LET k == Min(cap, Len(buf))
            IN  IF k = 0
                THEN WriteRet(w, "Pending", 0, <<>>, <<>>, <<>>)
                ELSE WriteRet(w, "Ok", k, SubSeq(buf, 1, k), SubSeq(buf, 1, k), <<>>)
      [] w.kind = "Aead2022" -> Aead2022EncryptedWriter_poll_write_encrypted(w, buf, cap)

\* a sent nonce that moves with the writer's record counter
EncryptedWriter_nonce_counted(w) ==
    IF w.kind = "None" THEN <<>>
    ELSE [i \in 1..Len(w.salt) |-> (w.salt[i] + w.nonce) % 256]

EncryptedWriter_nonce(w) ==
    CASE w.kind = "Stream" -> StreamEncryptedWriter_iv(w)
      [] w.kind = "Aead" -> AeadEncryptedWriter_salt(w)
      [] w.kind = "None" -> <<>>
      [] w.kind = "Aead2022" -> Aead2022EncryptedWriter_salt(w)

\* panics unless the writer is an AEAD-2022 one
EncryptedWriter_set_request_nonce(w, request_nonce) ==
    IF w.kind = "Aead2022"
    THEN [w |-> Aead2022EncryptedWriter_set_request_salt(w, request_nonce), panic |-> FALSE]
    ELSE [w |-> w, panic |-> TRUE]

NoCrypto == [method |-> "Unset", ty |-> "Client", dec |-> NoReader, enc |-> NoWriter,
             gens |-> 0, generated |-> <<>>, check_repeat |-> FALSE,
             panicked |-> FALSE]

CryptoStream_new_none(method) ==
    [method |-> method, ty |-> "Client", dec |-> NoReader, enc |-> NoWriter,
     gens |-> 0, generated |-> <<>>, check_repeat |-> FALSE, panicked |-> FALSE]

\* a constructor without the fast path, that asks for a nonce of the other
\* length, twice, and does not have it checked for repeats
CryptoStream_from_stream_careless(stream_ty, method, key, seed) ==
    LET prev_len == IF method = "Stream" THEN salt_len(method) ELSE iv_len(method)
        iv == generate_nonce(seed, prev_len)
    IN  [method |-> method, ty |-> stream_ty,
         dec |-> DecryptedReader_new(stream_ty, method, key),
         enc |-> EncryptedWriter_new(stream_ty, method, key, iv),
         gens |-> 2, generated |-> iv, check_repeat |-> FALSE, panicked |-> FALSE]

\* seed: where the context's random generator stands; gens counts the
\* generate_nonce calls, generated is what the last one returned,
\* check_repeat the flag it was called with
CryptoStream_from_stream(stream_ty, method, key, seed) ==
    IF method = "None"
    THEN CryptoStream_new_none(method)
    ELSE LET prev_len == IF method = "Stream" THEN iv_len(method) ELSE salt_len(method)
             iv == generate_nonce(seed, prev_len)
         IN  [method |-> method, ty |-> stream_ty,
              dec |-> DecryptedReader_new(stream_ty, method, key),
              enc |-> EncryptedWriter_new(stream_ty, method, key, iv),
              gens |-> 1, generated |-> iv, check_repeat |-> TRUE,
              panicked |-> FALSE]

CryptoStream_received_nonce(cs) == DecryptedReader_nonce(cs.dec)
CryptoStream_sent_nonce(cs) == EncryptedWriter_nonce(cs.enc)

CryptoStream_set_request_nonce(cs, request_nonce) ==
    LET r == EncryptedWriter_set_request_nonce(cs.enc, request_nonce)
    IN  [cs EXCEPT !.enc = r.w, !.panicked = r.panic]

\* an echo of the stream's own salt, whether or not the peer's has come
CryptoStream_set_request_nonce_with_received_own(cs) ==
    [cs |-> CryptoStream_set_request_nonce(cs, CryptoStream_sent_nonce(cs)),
     ret |-> TRUE]

CryptoStream_set_request_nonce_with_received(cs) ==
    LET nonce == CryptoStream_received_nonce(cs)
    IN  IF ~nonce.some
        THEN [cs |-> cs, ret |-> FALSE]
        ELSE [cs |-> CryptoStream_set_request_nonce(cs, nonce.val), ret |-> TRUE]

CryptoStream_poll_write_encrypted(cs, buf, cap) ==
    EncryptedWriter_poll_write_encrypted(cs.enc, buf, cap)

CryptoStream_poll_read_decrypted(cs, bytes, cap, eof) ==
    DecryptedReader_poll_read_decrypted(cs.dec, bytes, cap, eof)

(***************************************************************************)
(* One direction of a tunnel: the sender's CryptoStream writes, the        *)
(* receiver's reads what the sender's socket accepted.                     *)
(***************************************************************************)
NoWrite == [res |-> "none", n |-> 0]
NoReadDec == [res |-> "none", n |-> 0, err |-> "none"]

Opp(ty) == IF ty = "Client" THEN "Server" ELSE "Client"

WriteBufs == SeqsUpTo(PlainBytes, MaxWrite) \ {<<>>}

\* a ProxyClientStream that is not built
NoProxy == [state |-> "Unset", addr |-> <<>>, buffer |-> <<>>, pos |-> 0]

\* a CryptoStream that is not split
NoHalves == [split |-> FALSE, used |-> FALSE,
             r |-> [dec |-> NoReader, method |-> "Unset"],
             w |-> [enc |-> NoWriter, method |-> "Unset"]]

Dirs == {"up", "down"}

\* a shuttle of a relay copier that has not started
NoShuttle == [state |-> "idle", why |-> "none", left |-> 0, pending |-> 0, copied |-> 0]

Open ==
    /\ snd.method = "Unset"
    /\ \E method \in Categories, seed \in NonceSeeds :
       \E ty \in (IF method = "Aead2022" THEN StreamTypes ELSE {"Client"}) :
           /\ snd' = CryptoStream_from_stream(ty, method, Key, seed)
           /\ rcv' = CryptoStream_from_stream(Opp(ty), method, Key,
                                              seed + 1)
    /\ UNCHANGED <<wbuf, sock, rpos, assembled, written, delivered, encNonces,
                   decNonces, lastW, lastR>>
    /\ UNCHANGED autoVars
    /\ UNCHANGED extVars
    /\ UNCHANGED svcVars

\* the server hands its writer the salt the client sent
SetRequestNonce ==
    /\ snd.method # "Unset"
    /\ ~snd.panicked
    /\ ~sndHalves.split
    /\ snd' = CryptoStream_set_request_nonce(snd, CryptoStream_sent_nonce(rcv))
    /\ UNCHANGED <<rcv, wbuf, sock, rpos, assembled, written, delivered, encNonces,
                   decNonces, lastW, lastR>>
    /\ UNCHANGED autoVars
    /\ UNCHANGED extVars
    /\ UNCHANGED svcVars

\* the caller writes a new buf, or goes on with the one it has not finished
PollWriteEncrypted ==
    /\ snd.method # "Unset"
    /\ ~snd.panicked
    /\ ~wireEof
    /\ ~sndHalves.split
    /\ \E buf \in (IF wbuf = <<>> THEN WriteBufs ELSE {wbuf}), cap \in SockCaps :
           /\ Len(assembled) + Len(buf) <= MaxPlain \/ wbuf # <<>>
           /\ LET r == CryptoStream_poll_write_encrypted(snd, buf, cap)
              IN  /\ snd' = [snd EXCEPT !.enc = r.w]
                  /\ sock' = sock \o r.out
                  /\ assembled' = assembled \o r.taken
                  /\ encNonces' = encNonces \o r.nonces
                  /\ records' = IF r.nonces = <<>> THEN records
                                ELSE Append(records, Len(r.taken))
                  /\ written' = written \o SubSeq(buf, 1, r.n)
                  /\ wbuf' = SubSeq(buf, r.n + 1, Len(buf))
                  /\ lastW' = [res |-> r.res, n |-> r.n]
    /\ UNCHANGED <<rcv, rpos, delivered, decNonces, lastR>>
    /\ UNCHANGED autoVars
    /\ UNCHANGED <<tamperAt, wireEof, forge, proxyVars, splitVars, copyVars>>
    /\ UNCHANGED svcVars

\* the receiver's socket has k more bytes ready; the caller's buffer has room
\* for cap bytes; the socket reports its end once the sender has closed and
\* every byte of the wire is taken
PollReadDecrypted ==
    /\ rcv.method # "Unset"
    /\ ~rcv.panicked
    /\ ~rcvHalves.split
    /\ \E k \in SockCaps, cap \in 1..MaxOut :
           LET bytes == SubSeq(sock, rpos + 1, Min(Len(sock), rpos + k))
               r == CryptoStream_poll_read_decrypted(rcv, bytes, cap,
                                                     wireEof /\ rpos + Len(bytes) = Len(sock))
               used == Len(bytes) - Len(r.rest)
           IN  /\ rcv' = [rcv EXCEPT !.dec = r.d]
               /\ rpos' = rpos + used
               /\ delivered' = delivered \o r.out
               /\ decNonces' = decNonces \o r.nonces
               /\ lastR' = [res |-> r.res, n |-> Len(r.out),
                            err |-> IF r.res = "Err" THEN r.d.err ELSE "none"]
    /\ UNCHANGED <<snd, wbuf, sock, assembled, written, encNonces, lastW>>
    /\ UNCHANGED autoVars
    /\ UNCHANGED extVars
    /\ UNCHANGED svcVars

(***************************************************************************)
(* Faults of the transport: a byte of a record altered on its way, and the *)
(* sender's socket closed, at a frame boundary or inside a frame.          *)
(***************************************************************************)
\* the bytes one may add to a wire byte to alter it
TamperDeltas == {1}

\* the sender has written all it has to write; one byte of a record that the
\* receiver has not yet read is altered
Tamper ==
    /\ snd.method \in {"Aead", "Aead2022"}
    /\ tamperAt = 0
    /\ snd.enc.state = "Assemble"
    /\ wbuf = <<>>
    /\ Len(assembled) = MaxPlain
    /\ \E p \in 1..Len(sock), delta \in TamperDeltas :
           /\ p > rpos
           /\ p > SaltLen
           /\ sock' = [sock EXCEPT ![p] = (@ + delta) % 256]
           /\ tamperAt' = p
    /\ UNCHANGED <<snd, rcv, wbuf, rpos, assembled, written, delivered, encNonces,
                   decNonces, lastW, lastR>>
    /\ UNCHANGED autoVars
    /\ UNCHANGED <<records, wireEof, forge, proxyVars, splitVars, copyVars>>
    /\ UNCHANGED svcVars

\* the sender's socket is closed: what it has taken so far is all the wire
CloseWrite ==
    /\ snd.method # "Unset"
    /\ ~wireEof
    /\ wireEof' = TRUE
    /\ UNCHANGED cryptoVars
    /\ UNCHANGED autoVars
    /\ UNCHANGED <<tamperAt, records, forge, proxyVars, splitVars, copyVars>>
    /\ UNCHANGED svcVars

\* the values a peer may put into the 2-byte length field of a record
LenFields == {0, 1, 16383, 16384, 16385, 65535}

NoForge == [at |-> 0, field |-> 0, before |-> 0]

\* a peer that holds the key seals a record of its own making: the length
\* field carries f, one payload byte follows when f is not 0
ForgeRecord ==
    /\ snd.method = "Aead"
    /\ snd.enc.state = "Assemble"
    /\ wbuf = <<>>
    /\ forge = NoForge
    /\ \E f \in LenFields :
           LET w == snd.enc
               payload == IF f = 0 THEN <<>> ELSE <<CHOOSE b \in PlainBytes : TRUE>>
               r == seal_record(w.subkey, w.nonce, <<f \div 256, f % 256>>, payload)
           IN  /\ forge' = [at |-> Len(sock) + Len(w.buffer) + 1, field |-> f,
                            before |-> Len(assembled)]
               /\ sock' = sock \o w.buffer \o r.bytes
               /\ snd' = [snd EXCEPT !.enc.buffer = <<>>, !.enc.nonce = r.next]
               /\ encNonces' = encNonces \o r.nonces
    /\ UNCHANGED <<rcv, wbuf, rpos, assembled, written, delivered, decNonces,
                   lastW, lastR>>
    /\ UNCHANGED autoVars
    /\ UNCHANGED <<tamperAt, records, wireEof, proxyVars, splitVars, copyVars>>
    /\ UNCHANGED svcVars

(***************************************************************************)
(* ProxyClientStream: a client CryptoStream to the server whose first      *)
(* plaintext is the target address.                                        *)
(***************************************************************************)
\* the bytes of a host name
label(host) == IF host = "h1" THEN <<104, 49>> ELSE <<104, 50>>

\* SOCKS5 address encoding of Domain(name, port): type 0x03, the length of
\* the name, the name, the port as 2 big-endian bytes
socks5_address(target) ==
    <<3, Len(label(target.host))>> \o label(target.host)
        \o <<target.port \div 256, target.port % 256>>

ProxyClientStream_connect(target) ==
    [state |-> "Connect", addr |-> socks5_address(target), buffer |-> <<>>, pos |-> 0]

ProxyRet(p, r, res, n) == [p |-> p, r |-> r, res |-> res, n |-> n]

\* a stream that forgets how far it got when the socket takes a part only
ProxyClientStream_poll_write_restart(p, cs, buf, cap) ==
    IF p.state = "Connected"
    THEN LET r == CryptoStream_poll_write_encrypted(cs, buf, cap)
         IN  ProxyRet(p, r, r.res, r.n)
    ELSE LET buffer == p.addr \o buf
             r == CryptoStream_poll_write_encrypted(cs, buffer, cap)
         IN  IF r.res = "Ok" /\ r.n = Len(buffer)
             THEN ProxyRet([p EXCEPT !.state = "Connected"], r, "Ok", Len(buf))
             ELSE ProxyRet([p EXCEPT !.state = "Connecting"], r,
                           IF r.res = "Ok" THEN "Pending" ELSE r.res, 0)

\* the first write sends the address and the caller's buf as one plaintext,
\* and goes on from where it stopped until the CryptoStream has taken all of
\* it; the caller is told its buf is written only then. Later writes are the
\* CryptoStream's
ProxyClientStream_poll_write(p, cs, buf, cap) ==
    IF p.state = "Connected"
    THEN LET r == CryptoStream_poll_write_encrypted(cs, buf, cap)
         IN  ProxyRet(p, r, r.res, r.n)
    ELSE LET buffer == IF p.state = "Connect" THEN p.addr \o buf ELSE p.buffer
             r == CryptoStream_poll_write_encrypted(
                      cs, SubSeq(buffer, p.pos + 1, Len(buffer)), cap)
             pos == p.pos + r.n
         IN  IF r.res = "Ok" /\ pos = Len(buffer)
             THEN ProxyRet([p EXCEPT !.state = "Connected", !.buffer = <<>>, !.pos = 0],
                           r, "Ok", Len(buf))
             ELSE ProxyRet([p EXCEPT !.state = "Connecting", !.buffer = buffer,
                                     !.pos = pos],
                           r, IF r.res = "Ok" THEN "Pending" ELSE r.res, 0)

\* the targets a tunnel is opened to
ProxyTargets == {t \in Targets : t.host = "h1"}

\* connect_with_opts_map: a client CryptoStream over the socket to the server
ProxyConnect ==
    /\ pcs.state = "Unset"
    /\ snd.method = "Unset"
    /\ \E target \in ProxyTargets, method \in Categories, seed \in NonceSeeds :
           /\ pcs' = ProxyClientStream_connect(target)
           /\ snd' = CryptoStream_from_stream("Client", method, Key, seed)
           /\ rcv' = CryptoStream_from_stream("Server", method, Key, seed + 1)
    /\ UNCHANGED <<wbuf, sock, rpos, assembled, written, delivered, encNonces,
                   decNonces, lastW, lastR>>
    /\ UNCHANGED autoVars
    /\ UNCHANGED <<faultVars, splitVars, copyVars>>
    /\ UNCHANGED svcVars

\* the caller writes a new buf of payload, or goes on with the one it has
\* not finished
ProxyPollWrite ==
    /\ pcs.state # "Unset"
    /\ \E buf \in (IF wbuf = <<>> THEN WriteBufs ELSE {wbuf}), cap \in SockCaps :
           /\ Len(written) + Len(buf) <= MaxPlain
           /\ LET q == ProxyClientStream_poll_write(pcs, snd, buf, cap)
              IN  /\ pcs' = q.p
                  /\ snd' = [snd EXCEPT !.enc = q.r.w]
                  /\ sock' = sock \o q.r.out
                  /\ assembled' = assembled \o q.r.taken
                  /\ encNonces' = encNonces \o q.r.nonces
                  /\ records' = IF q.r.nonces = <<>> THEN records
                                ELSE Append(records, Len(q.r.taken))
                  /\ written' = written \o SubSeq(buf, 1, q.n)
                  /\ wbuf' = SubSeq(buf, q.n + 1, Len(buf))
                  /\ lastW' = [res |-> q.res, n |-> q.n]
    /\ UNCHANGED <<rcv, rpos, delivered, decNonces, lastR>>
    /\ UNCHANGED autoVars
    /\ UNCHANGED <<tamperAt, wireEof, forge, splitVars, copyVars>>
    /\ UNCHANGED svcVars

(***************************************************************************)
(* CryptoStream::into_split and the two halves.                            *)
(***************************************************************************)
\* a split that builds the reader and the writer anew
into_split_fresh(cs) ==
    [r |-> [dec |-> DecryptedReader_new(cs.ty, cs.method, Key), method |-> cs.method],
     w |-> [enc |-> EncryptedWriter_new(cs.ty, cs.method, Key, cs.generated),
            method |-> cs.method]]

into_split(cs) ==
    [r |-> [dec |-> cs.dec, method |-> cs.method],
     w |-> [enc |-> cs.enc, method |-> cs.method]]

CryptoStreamReadHalf_nonce(h) == DecryptedReader_nonce(h.dec)

CryptoStreamReadHalf_poll_read_decrypted(h, bytes, cap, eof) ==
    DecryptedReader_poll_read_decrypted(h.dec, bytes, cap, eof)

CryptoStreamWriteHalf_sent_nonce(h) == EncryptedWriter_nonce(h.enc)

CryptoStreamWriteHalf_poll_write_encrypted(h, buf, cap) ==
    EncryptedWriter_poll_write_encrypted(h.enc, buf, cap)

\* both ends of the pipe are split; snd and rcv stay behind as the streams
\* that were not split and are given every call their halves are given
IntoSplit ==
    /\ snd.method # "Unset"
    /\ ~snd.panicked
    /\ ~sndHalves.split
    /\ sndHalves' = [split |-> TRUE, used |-> FALSE,
                     r |-> into_split(snd).r, w |-> into_split(snd).w]
    /\ rcvHalves' = [split |-> TRUE, used |-> FALSE,
                     r |-> into_split(rcv).r, w |-> into_split(rcv).w]
    /\ UNCHANGED cryptoVars
    /\ UNCHANGED autoVars
    /\ UNCHANGED <<faultVars, proxyVars, copyVars>>
    /\ UNCHANGED svcVars

\* the write half of the sender writes; the wire gets what the half emits,
\* and used records that the half has emitted something
HalfPollWriteEncrypted ==
    /\ sndHalves.split
    /\ \E buf \in (IF wbuf = <<>> THEN WriteBufs ELSE {wbuf}), cap \in SockCaps :
           /\ Len(assembled) + Len(buf) <= MaxPlain \/ wbuf # <<>>
           /\ LET r == CryptoStreamWriteHalf_poll_write_encrypted(sndHalves.w, buf, cap)
                  u == CryptoStream_poll_write_encrypted(snd, buf, cap)
              IN  /\ sndHalves' = [sndHalves EXCEPT !.w.enc = r.w,
                                                       !.used = @ \/ r.out # <<>>]
                  /\ snd' = [snd EXCEPT !.enc = u.w]
                  /\ sock' = sock \o r.out
                  /\ assembled' = assembled \o r.taken
                  /\ encNonces' = encNonces \o r.nonces
                  /\ records' = IF r.nonces = <<>> THEN records
                                ELSE Append(records, Len(r.taken))
                  /\ written' = written \o SubSeq(buf, 1, r.n)
                  /\ wbuf' = SubSeq(buf, r.n + 1, Len(buf))
                  /\ lastW' = [res |-> r.res, n |-> r.n]
    /\ UNCHANGED <<rcv, rpos, delivered, decNonces, lastR>>
    /\ UNCHANGED autoVars
    /\ UNCHANGED <<tamperAt, wireEof, forge, proxyVars, rcvHalves, copyVars>>
    /\ UNCHANGED svcVars

\* the read half of the receiver reads
HalfPollReadDecrypted ==
    /\ rcvHalves.split
    /\ \E k \in SockCaps, cap \in 1..MaxOut :
           LET bytes == SubSeq(sock, rpos + 1, Min(Len(sock), rpos + k))
               end == wireEof /\ rpos + Len(bytes) = Len(sock)
               r == CryptoStreamReadHalf_poll_read_decrypted(rcvHalves.r, bytes, cap, end)
               u == CryptoStream_poll_read_decrypted(rcv, bytes, cap, end)
               used == Len(bytes) - Len(r.rest)
           IN  /\ rcvHalves' = [rcvHalves EXCEPT !.r.dec = r.d]
               /\ rcv' = [rcv EXCEPT !.dec = u.d]
               /\ rpos' = rpos + used
               /\ delivered' = delivered \o r.out
               /\ decNonces' = decNonces \o r.nonces
               /\ lastR' = [res |-> r.res, n |-> Len(r.out),
                            err |-> IF r.res = "Err" THEN r.d.err ELSE "none"]
    /\ UNCHANGED <<snd, wbuf, sock, assembled, written, encNonces, lastW>>
    /\ UNCHANGED autoVars
    /\ UNCHANGED <<faultVars, proxyVars, sndHalves, copyVars>>
    /\ UNCHANGED svcVars

(***************************************************************************)
(* The relay copier: two shuttles, up (inbound read to outbound write) and *)
(* down (outbound read to inbound write).                                  *)
(***************************************************************************)
MaxCopy == 2

Whys == {"EOF", "Err", "Cancel"}

\* a copier that is done as soon as one of its shuttles is
copier_done_either(sh) == \E d \in Dirs : sh[d].state = "done"

\* the copier is done once both shuttles are
copier_done(sh) == \A d \in Dirs : sh[d].state = "done"

\* a shuttle terminates and has yet to shut its write half down
shuttle_finish(s, why) == [s EXCEPT !.state = "finished", !.why = why]

CopierStart ==
    /\ copier = "idle"
    /\ \E up \in 0..MaxCopy, down \in 0..MaxCopy :
           shuttle' = [d \in Dirs |->
                          [state |-> "running", why |-> "none",
                           left |-> IF d = "up" THEN up ELSE down,
                           pending |-> 0, copied |-> 0]]
    /\ copier' = "running"
    /\ UNCHANGED shutdowns
    /\ UNCHANGED <<autoVars, cryptoVars, faultVars, proxyVars, splitVars>>
    /\ UNCHANGED svcVars

\* the shuttle reads from its source: some bytes, or the end of the stream
ShuttleRead ==
    /\ \E d \in Dirs :
           /\ shuttle[d].state = "running"
           /\ shuttle[d].pending = 0
           /\ IF shuttle[d].left = 0
              THEN shuttle' = [shuttle EXCEPT ![d] = shuttle_finish(@, "EOF")]
              ELSE \E n \in 1..shuttle[d].left :
                       shuttle' = [shuttle EXCEPT ![d].left = @ - n,
                                                  ![d].pending = n]
    /\ UNCHANGED <<shutdowns, copier>>
    /\ UNCHANGED <<autoVars, cryptoVars, faultVars, proxyVars, splitVars>>
    /\ UNCHANGED svcVars

\* the shuttle writes what it has read to the write half it feeds
ShuttleWrite ==
    /\ \E d \in Dirs :
           /\ shuttle[d].state = "running"
           /\ shuttle[d].pending > 0
           /\ \E n \in 1..shuttle[d].pending :
                  shuttle' = [shuttle EXCEPT ![d].pending = @ - n,
                                             ![d].copied = @ + n]
    /\ UNCHANGED <<shutdowns, copier>>
    /\ UNCHANGED <<autoVars, cryptoVars, faultVars, proxyVars, splitVars>>
    /\ UNCHANGED svcVars

\* a read or a write of the shuttle fails
ShuttleError ==
    /\ \E d \in Dirs :
           /\ shuttle[d].state = "running"
           /\ shuttle' = [shuttle EXCEPT ![d] = shuttle_finish(@, "Err")]
    /\ UNCHANGED <<shutdowns, copier>>
    /\ UNCHANGED <<autoVars, cryptoVars, faultVars, proxyVars, splitVars>>
    /\ UNCHANGED svcVars

\* the shuttle is cancelled
ShuttleCancel ==
    /\ \E d \in Dirs :
           /\ shuttle[d].state = "running"
           /\ shuttle' = [shuttle EXCEPT ![d] = shuttle_finish(@, "Cancel")]
    /\ UNCHANGED <<shutdowns, copier>>
    /\ UNCHANGED <<autoVars, cryptoVars, faultVars, proxyVars, splitVars>>
    /\ UNCHANGED svcVars

\* the terminated shuttle issues shutdown on the write half it was feeding
ShuttleShutdown ==
    /\ \E d \in Dirs :
           /\ shuttle[d].state = "finished"
           /\ shutdowns' = [shutdowns EXCEPT ![d] = @ + 1]
           /\ shuttle' = [shuttle EXCEPT ![d].state = "done"]
    /\ UNCHANGED copier
    /\ UNCHANGED <<autoVars, cryptoVars, faultVars, proxyVars, splitVars>>
    /\ UNCHANGED svcVars

CopierReturn ==
    /\ copier = "running"
    /\ copier_done(shuttle)
    /\ copier' = "returned"
    /\ UNCHANGED <<shuttle, shutdowns>>
    /\ UNCHANGED <<autoVars, cryptoVars, faultVars, proxyVars, splitVars>>
    /\ UNCHANGED svcVars

(***************************************************************************)
(* The receiving stream echoes the salt it has received.                   *)
(***************************************************************************)
SetRequestNonceWithReceived ==
    /\ rcv.method # "Unset"
    /\ ~rcv.panicked
    /\ ~rcvHalves.split
    /\ LET r == CryptoStream_set_request_nonce_with_received(rcv)
       IN  /\ rcv' = r.cs
           /\ echo' = IF r.cs.panicked THEN "panic"
                      ELSE IF r.ret THEN "true" ELSE "false"
    /\ UNCHANGED <<snd, wbuf, sock, rpos, assembled, written, delivered, encNonces,
                   decNonces, lastW, lastR>>
    /\ UNCHANGED autoVars
    /\ UNCHANGED extVars
    /\ UNCHANGED <<workers, launch, chan, senders, serverTask, builder, tunnel>>

(***************************************************************************)
(* The executor: a task that holds the ACL lock and is suspended gives it  *)
(* up only when a thread polls it again. A reader inside poll_read's       *)
(* block_on keeps its thread.                                              *)
(***************************************************************************)
WorkerCounts == {1, 2}

\* the threads that are free to poll a task
free_threads(n, reader) == IF reader = "blocked_acl" THEN n - 1 ELSE n

ScheduledReleaseAcl ==
    /\ aclHolder = "other"
    /\ free_threads(workers, rpc) > 0
    /\ aclHolder' = "none"
    /\ UNCHANGED <<aclSome, stream, dnsByte, call, rpc, rd, dnsHolder, aclLog, wire>>
    /\ UNCHANGED cryptoVars
    /\ UNCHANGED extVars
    /\ UNCHANGED svcVars

(***************************************************************************)
(* TunnelBuilder and the Tunnel it builds.                                 *)
(***************************************************************************)
Modes == {"TcpOnly", "UdpOnly", "TcpAndUdp"}

enable_tcp(mode) == mode \in {"TcpOnly", "TcpAndUdp"}
enable_udp(mode) == mode \in {"UdpOnly", "TcpAndUdp"}

Addrs == {"a1", "a2"}
Durations == {"d1"}
Capacities == {"c1"}

\* mode_set: set_mode has been called
NoBuilder == [made |-> FALSE, mode |-> "TcpOnly", mode_set |-> FALSE,
              client_addr |-> "a1", udp_addr |-> "None",
              udp_expiry_duration |-> "None", udp_capacity |-> "None"]

\* tcp_new, udp_new count the calls of TunnelTcpServer::new and
\* TunnelUdpServer::new, udp_bind is the address the UDP one was given;
\* tcp_ok, udp_ok: whether the two succeed when called
NoTunnel == [result |-> "none", tcp_server |-> FALSE, udp_server |-> FALSE,
             tcp_new |-> 0, udp_new |-> 0, udp_bind |-> "None",
             udp_expiry_duration |-> "None", udp_capacity |-> "None",
             tcp_ok |-> TRUE, udp_ok |-> TRUE]

TunnelBuilder_with_context(client_addr) ==
    [made |-> TRUE, mode |-> "TcpOnly", mode_set |-> FALSE,
     client_addr |-> client_addr, udp_addr |-> "None",
     udp_expiry_duration |-> "None", udp_capacity |-> "None"]

TunnelBuilder_set_udp_expiry_duration(b, d) == [b EXCEPT !.udp_expiry_duration = d]

TunnelBuilder_set_udp_capacity(b, c) == [b EXCEPT !.udp_capacity = c]

TunnelBuilder_set_mode(b, mode) == [b EXCEPT !.mode = mode, !.mode_set = TRUE]

TunnelBuilder_set_udp_bind_addr(b, addr) == [b EXCEPT !.udp_addr = addr]

\* a build that makes both servers whatever the mode, the UDP one on the
\* client address, and returns a Tunnel whatever became of them
TunnelBuilder_build_both(b, tcp_ok, udp_ok) ==
    [NoTunnel EXCEPT !.result = "Ok", !.tcp_server = tcp_ok, !.udp_server = udp_ok,
                     !.tcp_new = 1, !.udp_new = 1, !.udp_bind = b.client_addr,
                     !.udp_expiry_duration = b.udp_expiry_duration,
                     !.udp_capacity = b.udp_capacity]

TunnelBuilder_build(b, tcp_ok, udp_ok) ==
    LET udp_addr == IF b.udp_addr # "None" THEN b.udp_addr ELSE b.client_addr
        tcp == IF enable_tcp(b.mode) THEN 1 ELSE 0
    IN  IF enable_tcp(b.mode) /\ ~tcp_ok
        THEN [NoTunnel EXCEPT !.result = "Err", !.tcp_new = 1]
        ELSE IF enable_udp(b.mode) /\ ~udp_ok
        THEN [NoTunnel EXCEPT !.result = "Err", !.tcp_new = tcp, !.udp_new = 1,
                              !.udp_bind = udp_addr,
                              !.udp_expiry_duration = b.udp_expiry_duration,
                              !.udp_capacity = b.udp_capacity]
        ELSE IF enable_udp(b.mode)
        THEN [NoTunnel EXCEPT !.result = "Ok", !.tcp_server = enable_tcp(b.mode),
                              !.udp_server = TRUE, !.tcp_new = tcp, !.udp_new = 1,
                              !.udp_bind = udp_addr,
                              !.udp_expiry_duration = b.udp_expiry_duration,
                              !.udp_capacity = b.udp_capacity]
        ELSE [NoTunnel EXCEPT !.result = "Ok", !.tcp_server = enable_tcp(b.mode),
                              !.tcp_new = tcp]

Configure(b) ==
    /\ builder' = b
    /\ UNCHANGED <<workers, echo, launch, chan, senders, serverTask, tunnel>>
    /\ UNCHANGED <<autoVars, cryptoVars, extVars>>

WithContext ==
    /\ ~builder.made
    /\ \E client_addr \in Addrs : Configure(TunnelBuilder_with_context(client_addr))

SetUdpExpiryDuration ==
    /\ builder.made
    /\ tunnel.result = "none"
    /\ \E d \in Durations : Configure(TunnelBuilder_set_udp_expiry_duration(builder, d))

SetUdpCapacity ==
    /\ builder.made
    /\ tunnel.result = "none"
    /\ \E c \in Capacities : Configure(TunnelBuilder_set_udp_capacity(builder, c))

SetMode ==
    /\ builder.made
    /\ tunnel.result = "none"
    /\ \E mode \in Modes : Configure(TunnelBuilder_set_mode(builder, mode))

SetUdpBindAddr ==
    /\ builder.made
    /\ tunnel.result = "none"
    /\ \E addr \in Addrs : Configure(TunnelBuilder_set_udp_bind_addr(builder, addr))

\* build consumes the builder: nothing is set on it afterwards
Build ==
    /\ builder.made
    /\ tunnel.result = "none"
    /\ \E tcp_ok \in BOOLEAN, udp_ok \in BOOLEAN :
           tunnel' = [TunnelBuilder_build(builder, tcp_ok, udp_ok)
                          EXCEPT !.tcp_ok = tcp_ok, !.udp_ok = udp_ok]
    /\ UNCHANGED <<workers, echo, launch, chan, senders, serverTask, builder>>
    /\ UNCHANGED <<autoVars, cryptoVars, extVars>>

(***************************************************************************)
(* The launcher's main: it loads the configuration, builds the runtime,    *)
(* hands the sender of the stop channel to the stop callback, and inside   *)
(* block_on creates the local instance, spawns the server task and waits   *)
(* for true on the channel. The callback's side sends, clones and drops.   *)
(***************************************************************************)
\* the most values waiting on the stop channel, the most senders alive, the
\* most steps of the server task the model follows
MaxChan == 2
MaxSenders == 2
MaxServe == 2

RuntimeModes == {"SingleThread", "MultiThread"}

NoLaunch == [pc |-> "start", mode |-> "none", stops |-> 0, got |-> "none"]

NoServer == [state |-> "none", served |-> 0]

\* a loop that returns on whatever it receives
recv_returns_any(r) == TRUE

\* if r { return; }
recv_returns(r) == r

\* the spawned task is polled by a worker thread of the multi-thread
\* runtime; the current-thread runtime polls it on the thread inside
\* block_on, when the future given to block_on is pending
server_can_run(l) ==
    /\ l.pc = "waiting"
    /\ l.mode = "MultiThread"

Main(l) ==
    /\ launch' = l
    /\ UNCHANGED <<workers, echo, chan, senders, serverTask, builder, tunnel>>
    /\ UNCHANGED <<autoVars, cryptoVars, extVars>>

\* a file that does not load ends the process, a configuration that is not
\* valid makes main return
LoadConfig ==
    /\ launch.pc = "start"
    /\ \E next \in {"configured", "exited", "returned"} :
           Main([launch EXCEPT !.pc = next])

\* builder.enable_all().build().expect("create tokio Runtime")
BuildRuntime ==
    /\ launch.pc = "configured"
    /\ \E mode \in RuntimeModes, next \in {"built", "panicked"} :
           Main([launch EXCEPT !.pc = next, !.mode = mode])

\* let (ts, tr) = channel(); stop(ts)
CallStop ==
    /\ launch.pc = "built"
    /\ launch' = [launch EXCEPT !.pc = "signalled", !.stops = @ + 1]
    /\ chan' = <<>>
    /\ senders' = 1
    /\ UNCHANGED <<workers, echo, serverTask, builder, tunnel>>
    /\ UNCHANGED <<autoVars, cryptoVars, extVars>>

\* create_local(config).await.expect("create local")
CreateLocal ==
    /\ launch.pc = "signalled"
    /\ \E next \in {"created", "panicked"} :
           Main([launch EXCEPT !.pc = next])

SpawnServer ==
    /\ launch.pc = "created"
    /\ launch' = [launch EXCEPT !.pc = "waiting"]
    /\ serverTask' = [serverTask EXCEPT !.state = "spawned"]
    /\ UNCHANGED <<workers, echo, chan, senders, builder, tunnel>>
    /\ UNCHANGED <<autoVars, cryptoVars, extVars>>

\* for r in tr: the next value, or the end when no sender is left
Recv ==
    /\ launch.pc = "waiting"
    /\ IF chan # <<>>
       THEN /\ chan' = Tail(chan)
            /\ launch' = [launch EXCEPT
                              !.pc = IF recv_returns(Head(chan)) THEN "returned" ELSE @,
                              !.got = IF Head(chan) THEN "true" ELSE "false"]
       ELSE /\ senders = 0
            /\ chan' = chan
            /\ launch' = [launch EXCEPT !.pc = "returned", !.got = "disconnected"]
    /\ UNCHANGED <<workers, echo, senders, serverTask, builder, tunnel>>
    /\ UNCHANGED <<autoVars, cryptoVars, extVars>>

Waiting == launch.pc \in {"signalled", "created", "waiting"}

SendStop ==
    /\ Waiting
    /\ senders > 0
    /\ Len(chan) < MaxChan
    /\ \E r \in BOOLEAN : chan' = Append(chan, r)
    /\ UNCHANGED <<workers, echo, launch, senders, serverTask, builder, tunnel>>
    /\ UNCHANGED <<autoVars, cryptoVars, extVars>>

CloneSender ==
    /\ Waiting
    /\ senders > 0
    /\ senders < MaxSenders
    /\ senders' = senders + 1
    /\ UNCHANGED <<workers, echo, launch, chan, serverTask, builder, tunnel>>
    /\ UNCHANGED <<autoVars, cryptoVars, extVars>>

DropSender ==
    /\ Waiting
    /\ senders > 0
    /\ senders' = senders - 1
    /\ UNCHANGED <<workers, echo, launch, chan, serverTask, builder, tunnel>>
    /\ UNCHANGED <<autoVars, cryptoVars, extVars>>

\* the server task is polled and serves
ServerRun ==
    /\ serverTask.state = "spawned"
    /\ server_can_run(launch)
    /\ serverTask.served < MaxServe
    /\ serverTask' = [serverTask EXCEPT !.served = @ + 1]
    /\ UNCHANGED <<workers, echo, launch, chan, senders, builder, tunnel>>
    /\ UNCHANGED <<autoVars, cryptoVars, extVars>>

\* the server future resolves: process::exit
ServerExit ==
    /\ serverTask.state = "spawned"
    /\ server_can_run(launch)
    /\ serverTask' = [serverTask EXCEPT !.state = "exited"]
    /\ launch' = [launch EXCEPT !.pc = "exited"]
    /\ UNCHANGED <<workers, echo, chan, senders, builder, tunnel>>
    /\ UNCHANGED <<autoVars, cryptoVars, extVars>>

\* the abort signal resolves first: the task ends and main waits on
ServerAbort ==
    /\ serverTask.state = "spawned"
    /\ server_can_run(launch)
    /\ serverTask' = [serverTask EXCEPT !.state = "aborted"]
    /\ UNCHANGED <<workers, echo, launch, chan, senders, builder, tunnel>>
    /\ UNCHANGED <<autoVars, cryptoVars, extVars>>

\* no launcher or tunnel builder is under observation
SvcRest ==
    /\ echo = "none"
    /\ launch = NoLaunch
    /\ chan = <<>>
    /\ senders = 0
    /\ serverTask = NoServer
    /\ builder = NoBuilder
    /\ tunnel = NoTunnel

\* nothing has gone wrong on the wire, no ProxyClientStream, no split stream
\* and no relay copier is under observation
ExtIdle ==
    /\ tamperAt = 0
    /\ records = <<>>
    /\ wireEof = FALSE
    /\ forge = NoForge
    /\ pcs = NoProxy
    /\ sndHalves = NoHalves
    /\ rcvHalves = NoHalves
    /\ shuttle = [d \in Dirs |-> NoShuttle]
    /\ shutdowns = [d \in Dirs |-> 0]
    /\ copier = "idle"

\* no CryptoStream is under observation
CryptoIdle ==
    /\ snd = NoCrypto
    /\ rcv = NoCrypto
    /\ wbuf = <<>>
    /\ sock = <<>>
    /\ rpos = 0
    /\ assembled = <<>>
    /\ written = <<>>
    /\ delivered = <<>>
    /\ encNonces = <<>>
    /\ decNonces = <<>>
    /\ lastW = NoWrite
    /\ lastR = NoReadDec
    /\ ExtIdle
    /\ SvcRest

(***************************************************************************)
(* The AutoProxyClientStream on its own.                                   *)
(***************************************************************************)
Init ==
    /\ CryptoIdle
    /\ workers = 0
    /\ aclSome \in BOOLEAN
    /\ stream = NoStream
    /\ dnsByte = <<>>
    /\ call = NoCall
    /\ rpc = "idle"
    /\ rd = NoRead
    /\ aclHolder = "none"
    /\ dnsHolder = "none"
    /\ aclLog = <<>>
    /\ wire = <<>>

Next ==
    \/ Connect
    \/ ConnectBypassed
    \/ ConnectProxied
    \/ PollRead
    \/ PollReadResume
    \/ OtherAcquireAcl
    \/ OtherReleaseAcl

Spec == Init /\ [][Next]_vars

(***************************************************************************)
(* The AutoProxyClientStream with every operation of its interface.        *)
(***************************************************************************)
IoNext ==
    \/ Connect
    \/ ConnectBypassed
    \/ ConnectProxied
    \/ PollRead
    \/ PollReadResume
    \/ OtherAcquireAcl
    \/ OtherReleaseAcl
    \/ LocalAddr
    \/ SetNodelay
    \/ PollWrite
    \/ PollFlush
    \/ PollShutdown
    \/ PollWriteVectored

IoSpec == Init /\ [][IoNext]_vars

(***************************************************************************)
(* The sniffer on an established port-53 stream, with the history of the   *)
(* stream kept: every byte delivered (wire) and every message handed to    *)
(* the ACL (aclLog). The caller reads into an empty buffer each time.      *)
(***************************************************************************)
SniffInit ==
    /\ CryptoIdle
    /\ workers = 0
    /\ aclSome = TRUE
    /\ stream \in {[variant |-> v, is_dns |-> TRUE] : v \in {"Proxied", "Bypassed"}}
    /\ dnsByte = <<>>
    /\ call = NoCall
    /\ rpc = "idle"
    /\ rd = NoRead
    /\ aclHolder = "none"
    /\ dnsHolder = "none"
    /\ aclLog = <<>>
    /\ wire = <<>>

SniffPollRead ==
    /\ rpc = "idle"
    /\ \E data \in ReadChunks, ans \in BOOLEAN :
           /\ Len(wire) + Len(data) <= MaxWire
           /\ poll_read("Ok", <<>>, data, ans)
           /\ wire' = wire \o data
    /\ aclLog' = aclLog \o rd'.handed
    /\ UNCHANGED <<aclSome, stream, call>>
    /\ UNCHANGED cryptoVars
    /\ UNCHANGED extVars
    /\ UNCHANGED svcVars

SniffPollReadResume ==
    /\ rpc = "blocked_acl"
    /\ aclHolder = "none"
    /\ \E ans \in BOOLEAN : poll_read_resume(ans)
    /\ aclLog' = aclLog \o rd'.handed
    /\ UNCHANGED <<aclSome, stream, call, wire>>
    /\ UNCHANGED cryptoVars
    /\ UNCHANGED extVars
    /\ UNCHANGED svcVars

SniffNext ==
    \/ SniffPollRead
    \/ SniffPollReadResume
    \/ OtherAcquireAcl
    \/ OtherReleaseAcl

SniffSpec == SniffInit /\ [][SniffNext]_vars

(***************************************************************************)
(* The CryptoStream pipe on its own.                                       *)
(***************************************************************************)
CryptoInit ==
    /\ CryptoIdle
    /\ workers = 0
    /\ aclSome = TRUE
    /\ stream = NoStream
    /\ dnsByte = <<>>
    /\ call = NoCall
    /\ rpc = "idle"
    /\ rd = NoRead
    /\ aclHolder = "none"
    /\ dnsHolder = "none"
    /\ aclLog = <<>>
    /\ wire = <<>>

CryptoNext ==
    \/ Open
    \/ SetRequestNonce
    \/ PollWriteEncrypted
    \/ PollReadDecrypted

CryptoSpec == CryptoInit /\ [][CryptoNext]_vars

(***************************************************************************)
(* The CryptoStream pipe over a transport that alters and cuts.            *)
(***************************************************************************)
TamperNext ==
    \/ Open
    \/ SetRequestNonce
    \/ PollWriteEncrypted
    \/ PollReadDecrypted
    \/ Tamper

TamperSpec == CryptoInit /\ [][TamperNext]_vars

EofNext ==
    \/ Open
    \/ SetRequestNonce
    \/ PollWriteEncrypted
    \/ PollReadDecrypted
    \/ CloseWrite

EofSpec == CryptoInit /\ [][EofNext]_vars

(***************************************************************************)
(* A ProxyClientStream and the server that reads what it sends.            *)
(***************************************************************************)
ProxyNext ==
    \/ ProxyConnect
    \/ ProxyPollWrite
    \/ PollReadDecrypted

ProxySpec == CryptoInit /\ [][ProxyNext]_vars

(***************************************************************************)
(* The CryptoStream pipe, split into halves at any moment.                 *)
(***************************************************************************)
SplitNext ==
    \/ Open
    \/ SetRequestNonce
    \/ PollWriteEncrypted
    \/ PollReadDecrypted
    \/ IntoSplit
    \/ HalfPollWriteEncrypted
    \/ HalfPollReadDecrypted

SplitSpec == CryptoInit /\ [][SplitNext]_vars

(***************************************************************************)
(* The relay copier on its own.                                            *)
(***************************************************************************)
CopyNext ==
    \/ CopierStart
    \/ ShuttleRead
    \/ ShuttleWrite
    \/ ShuttleError
    \/ ShuttleCancel
    \/ ShuttleShutdown
    \/ CopierReturn

CopySpec == CryptoInit /\ [][CopyNext]_vars

(***************************************************************************)
(* The sniffer on a runtime of one or two threads.                         *)
(***************************************************************************)
ExecInit ==
    /\ CryptoIdle
    /\ workers \in WorkerCounts
    /\ aclSome \in BOOLEAN
    /\ stream = NoStream
    /\ dnsByte = <<>>
    /\ call = NoCall
    /\ rpc = "idle"
    /\ rd = NoRead
    /\ aclHolder = "none"
    /\ dnsHolder = "none"
    /\ aclLog = <<>>
    /\ wire = <<>>

ExecNext ==
    \/ ConnectProxied
    \/ PollRead
    \/ PollReadResume
    \/ OtherAcquireAcl
    \/ ScheduledReleaseAcl

ExecSpec == ExecInit /\ [][ExecNext]_vars

(***************************************************************************)
(* The CryptoStream pipe whose receiver echoes the salt it received.       *)
(***************************************************************************)
EchoNext ==
    \/ Open
    \/ PollWriteEncrypted
    \/ PollReadDecrypted
    \/ SetRequestNonceWithReceived

EchoSpec == CryptoInit /\ [][EchoNext]_vars

(***************************************************************************)
(* The TunnelBuilder on its own.                                           *)
(***************************************************************************)
BuildNext ==
    \/ WithContext
    \/ SetUdpExpiryDuration
    \/ SetUdpCapacity
    \/ SetMode
    \/ SetUdpBindAddr
    \/ Build

BuildSpec == CryptoInit /\ [][BuildNext]_vars

(***************************************************************************)
(* The launcher on its own; in LaunchFairSpec the thread of main keeps     *)
(* running while it has a step to take.                                    *)
(***************************************************************************)
MainStep ==
    \/ LoadConfig
    \/ BuildRuntime
    \/ CallStop
    \/ CreateLocal
    \/ SpawnServer
    \/ Recv

LaunchNext ==
    \/ LoadConfig
    \/ BuildRuntime
    \/ CallStop
    \/ CreateLocal
    \/ SpawnServer
    \/ Recv
    \/ SendStop
    \/ CloneSender
    \/ DropSender
    \/ ServerRun
    \/ ServerExit
    \/ ServerAbort

LaunchSpec == CryptoInit /\ [][LaunchNext]_vars

LaunchFairSpec == CryptoInit /\ [][LaunchNext]_vars /\ WF_vars(MainStep)

(***************************************************************************)
(* The CryptoStream pipe with a peer that chooses a record's length field. *)
(***************************************************************************)
ForgeNext ==
    \/ Open
    \/ PollWriteEncrypted
    \/ PollReadDecrypted
    \/ ForgeRecord

ForgeSpec == CryptoInit /\ [][ForgeNext]_vars

(***************************************************************************)
(* Properties of AutoProxyClientStream.                                    *)
(***************************************************************************)
\* C1: a connect call evaluates the ACL bypass predicate once, opens exactly
\* one connection (never a direct and a proxied one), and when it succeeds
\* returns Bypassed (is_proxied() = false) iff check_target_bypassed(target)
\* holds, and Proxied (is_proxied() = true) otherwise.
C1_ConnectDecision ==
    call.op = "connect" =>
        /\ call.evals = 1
        /\ call.direct + call.proxied = 1
        /\ call.direct = 1 <=> check_target_bypassed(call.target)
        /\ call.result = "Ok" =>
               /\ stream.variant \in {"Bypassed", "Proxied"}
               /\ stream.variant = "Bypassed" <=> check_target_bypassed(call.target)
               /\ is_proxied(stream) <=> ~check_target_bypassed(call.target)

C1_Witness ==
    /\ call.op = "connect"
    /\ call.result = "Ok"
    /\ check_target_bypassed(call.target)
    /\ ~is_proxied(stream)

\* C2: when connect_proxied fails to establish the ProxyClientStream,
\* report_failure is invoked exactly once, the error is returned and no
\* stream is produced; when it succeeds report_failure is not invoked.
C2_ReportFailureOnce ==
    (call.op = "connect_proxied" \/ (call.op = "connect" /\ call.proxied = 1)) =>
        /\ ~call.ok => (call.reports = 1 /\ call.result = "Err" /\ stream = NoStream)
        /\ call.ok => (call.reports = 0 /\ call.result = "Ok" /\ is_proxied(stream))

C2_Witness ==
    /\ call.op = "connect_proxied"
    /\ ~call.ok
    /\ call.reports = 1

\* C3: every poll_read returns to its caller exactly the Poll result of the
\* underlying variant's poll_read, with exactly the bytes that read filled;
\* the sniffer never turns a successful read into a failure.
C3_ReadTransparent ==
    (rd.under # "none" /\ rpc # "blocked_acl") =>
        /\ rd.result = rd.under
        /\ rd.filled = rd.pre \o rd.data

\* the complete messages of a byte stream framed by 2-byte big-endian lengths
RECURSIVE Messages(_)
Messages(w) ==
    IF Len(w) < 2 THEN <<>>
    ELSE LET n == w[1] * 256 + w[2]
         IN  IF Len(w) < 2 + n THEN <<>>
             ELSE <<SubSeq(w, 3, 2 + n)>> \o Messages(SubSeq(w, 3 + n, Len(w)))

\* C4: on a port-53 stream, whatever the chunking of the reads, the messages
\* handed to the ACL are exactly the complete length-prefixed messages of the
\* stream so far, each once, in order, without the length prefix.
C4_EveryMessageOnce ==
    (stream.is_dns /\ rpc = "idle") => aclLog = Messages(wire)

\* C5: the message length the sniffer uses is the big-endian value of the
\* two prefix bytes, b0 * 256 + b1.
C5_BigEndianLength ==
    rd.sniffed => rd.len = rd.filled[1] * 256 + rd.filled[2]

\* C6: poll_read never waits for a lock: with the ACL lock held by another
\* task it still returns at once.
C6_NeverBlocks ==
    ~(rpc = "blocked_acl" /\ aclHolder = "other")

(***************************************************************************)
(* Properties of the CryptoStream pipe.                                    *)
(***************************************************************************)
IsPrefix(a, b) == Len(a) <= Len(b) /\ SubSeq(b, 1, Len(a)) = a

\* nothing is on its way: the writer has flushed what it sealed, the caller
\* has no unfinished buf, the reader has taken every wire byte and handed
\* over every byte it decrypted
Quiescent ==
    /\ snd.enc.state = "Assemble"
    /\ wbuf = <<>>
    /\ rpos = Len(sock)
    /\ rcv.dec.pos = Len(rcv.dec.plain)

\* C7: for every cipher category, every split of the plaintext into writes
\* and every split of the wire bytes into reads, the reader delivers exactly
\* the plaintext written, in order: at any moment a prefix of it, no read
\* fails, and all of it once nothing is on its way.
C7_RoundTrip ==
    rcv.method # "Unset" =>
        /\ IsPrefix(written, assembled)
        /\ IsPrefix(delivered, assembled)
        /\ lastR.res # "Err"
        /\ Quiescent => (delivered = written /\ written = assembled)

C7_Witness ==
    /\ snd.method = "Aead"
    /\ Quiescent
    /\ Len(encNonces) = 4
    /\ Len(delivered) = MaxPlain
    /\ delivered = written

StrictlyIncreasingFromZero(s) ==
    /\ s # <<>> => s[1] = 0
    /\ \A i, j \in 1..Len(s) : i < j => s[i] < s[j]

\* C8: in each direction the nonce counter values the AEAD writer seals
\* under, and those the AEAD reader opens under, start at 0, strictly
\* increase, and none is used for two records, whatever the writes, partial
\* writes and Pending results.
C8_NoncesIncrease ==
    /\ StrictlyIncreasingFromZero(encNonces)
    /\ StrictlyIncreasingFromZero(decNonces)

C8_Witness ==
    /\ snd.method \in {"Aead", "Aead2022"}
    /\ Len(encNonces) = 4
    /\ Len(decNonces) = 4
    /\ lastW.res = "Ok"

\* the bytes the writer's frames take on the wire, the IV or salt aside
FrameBytes ==
    CASE snd.method = "Aead" -> Len(assembled) + (Len(encNonces) \div 2) * (2 + 2 * TagLen)
      [] snd.method = "Aead2022" ->
            Len(assembled) + (Len(encNonces) \div 2) * (2 + 2 * TagLen)
                + (IF encNonces = <<>> THEN 0
                   ELSE IF snd.ty = "Server" THEN 2 + SaltLen ELSE 2)
      [] OTHER -> Len(assembled)

PrefixLen(method) ==
    CASE method = "Stream" -> IvLen
      [] method \in {"Aead", "Aead2022"} -> SaltLen
      [] OTHER -> 0

\* C9: the writer emits the IV or salt generated for it once, all of it
\* before the first ciphertext byte; when the socket takes only part of it,
\* the next call resumes at that byte, re-sending and skipping nothing.
C9_IvOnce ==
    snd.method # "Unset" =>
        LET iv == snd.generated
            m == Min(Len(sock), Len(iv))
        IN  /\ Len(iv) = PrefixLen(snd.method)
            /\ SubSeq(sock, 1, m) = SubSeq(iv, 1, m)
            /\ assembled = <<>> => sock = <<>>
            /\ Len(sock) <= Len(iv) + FrameBytes
            /\ (assembled # <<>> /\ snd.enc.state = "Assemble") =>
                   Len(sock) = Len(iv) + FrameBytes

C9_Witness ==
    /\ snd.method = "Aead"
    /\ lastW.res = "Pending"
    /\ Len(sock) = 1
    /\ snd.enc.pos = 1

\* C10: a reader of a non-None cipher hands no plaintext to its caller
\* before it has taken the whole IV or salt from the wire, and
\* received_nonce() is None until then (and the prefix itself afterwards);
\* with the None cipher received_nonce() is always None.
C10_NoPlaintextBeforeIv ==
    rcv.method # "Unset" =>
        LET got == CryptoStream_received_nonce(rcv)
            need == PrefixLen(rcv.method)
        IN  /\ rcv.method = "None" => ~got.some
            /\ rcv.method # "None" =>
                   /\ rpos < need => (delivered = <<>> /\ ~got.some)
                   /\ got.some => (rpos >= need /\ got.val = SubSeq(sock, 1, need))

C10_Witness ==
    /\ rcv.method = "Stream"
    /\ rpos > 0
    /\ rpos < IvLen
    /\ lastR.res = "Pending"

(***************************************************************************)
(* Properties of the readers over a transport that alters and cuts.        *)
(***************************************************************************)
\* the wire layout of the records the sender sealed: the first chunk of a
\* record is its sealed length, or for the first AEAD-2022 record its header
FirstChunk(i) ==
    (IF snd.method = "Aead2022" /\ i = 1 THEN header_len(Opp(snd.ty)) ELSE 2) + TagLen

RecordWire(i) == FirstChunk(i) + records[i] + TagLen

RECURSIVE RecordStart(_)
RecordStart(i) == IF i = 1 THEN SaltLen ELSE RecordStart(i - 1) + RecordWire(i - 1)

RECURSIVE PlainUpTo(_)
PlainUpTo(i) == IF i = 1 THEN 0 ELSE PlainUpTo(i - 1) + records[i - 1]

\* the record the wire position p lies in, 0 when in none
RecordAt(p) ==
    LET in == {i \in 1..Len(records) :
                  p > RecordStart(i) /\ p <= RecordStart(i) + RecordWire(i)}
    IN  IF in = {} THEN 0 ELSE CHOOSE i \in in : TRUE

\* the last wire position of the chunk p lies in
ChunkEnd(p) ==
    LET i == RecordAt(p)
    IN  IF p <= RecordStart(i) + FirstChunk(i)
        THEN RecordStart(i) + FirstChunk(i)
        ELSE RecordStart(i) + RecordWire(i)

\* every read a caller can issue in this state
ReadsNow ==
    {CryptoStream_poll_read_decrypted(
         rcv, SubSeq(sock, rpos + 1, Min(Len(sock), rpos + k)), cap,
         wireEof /\ Min(Len(sock), rpos + k) = Len(sock)) :
     k \in SockCaps, cap \in 1..MaxOut}

\* C11: once a byte of an AEAD record's ciphertext or tag is altered on the
\* wire, the read that takes the last byte of the altered chunk fails with
\* CryptoAuth, no plaintext of that record (or of a later one) is delivered,
\* what was delivered before is the plaintext written, and a poisoned reader
\* fails every later read and stays as it is.
C11_TamperPoisons ==
    tamperAt # 0 =>
        /\ RecordAt(tamperAt) # 0
        /\ IsPrefix(delivered, assembled)
        /\ Len(delivered) <= PlainUpTo(RecordAt(tamperAt))
        /\ rpos <= ChunkEnd(tamperAt)
        /\ rpos = ChunkEnd(tamperAt) =>
               /\ rcv.dec.state = "Poisoned"
               /\ rcv.dec.err = "CryptoAuth"
        /\ rcv.dec.state = "Poisoned" =>
               /\ lastR.res = "Err"
               /\ lastR.n = 0
               /\ \A r \in ReadsNow : r.res = "Err" /\ r.out = <<>> /\ r.d = rcv.dec

C11_Witness ==
    /\ tamperAt # 0
    /\ RecordAt(tamperAt) = 2
    /\ Len(delivered) = 1
    /\ lastR.res = "Err"
    /\ lastR.err = "CryptoAuth"

\* the wire positions between frames: before the first byte, after the IV or
\* salt, after every whole record; for a stream cipher after every byte that
\* follows the IV, for the None cipher everywhere
FrameBoundary(p) ==
    CASE rcv.method = "None" -> TRUE
      [] rcv.method = "Stream" -> p = 0 \/ p >= IvLen
      [] OTHER -> \/ p = 0
                  \/ p = SaltLen
                  \/ \E i \in 1..Len(records) : p = RecordStart(i) + RecordWire(i)

\* the reads a caller can issue that find the wire at its end
ReadsAtEof ==
    {CryptoStream_poll_read_decrypted(rcv, <<>>, cap, TRUE) : cap \in 1..MaxOut}

\* C12: a read returns Ok with no byte filled only when the wire has ended,
\* the reader has taken all of it, it ends at a frame boundary and no
\* plaintext is left over; when the wire ends inside the IV or salt, a
\* length or a payload, the read that finds the end fails with UnexpectedEof.
C12_CleanEofOnlyAtBoundary ==
    rcv.method # "Unset" =>
        /\ (lastR.res = "Ok" /\ lastR.n = 0) =>
               /\ wireEof
               /\ rpos = Len(sock)
               /\ FrameBoundary(rpos)
               /\ rcv.dec.pos = Len(rcv.dec.plain)
        /\ (wireEof /\ rpos = Len(sock) /\ rcv.dec.state # "Poisoned") =>
               \A r \in ReadsAtEof :
                   IF FrameBoundary(rpos)
                   THEN r.res = "Ok" /\ (r.out = <<>> <=> rcv.dec.pos = Len(rcv.dec.plain))
                   ELSE r.res = "Err" /\ r.out = <<>> /\ r.d.err = "UnexpectedEof"
        /\ lastR.err = "UnexpectedEof" =>
               (wireEof /\ rpos = Len(sock) /\ ~FrameBoundary(rpos))

C12_Witness ==
    /\ rcv.method = "Aead"
    /\ wireEof
    /\ rpos > SaltLen
    /\ lastR.res = "Err"
    /\ lastR.err = "UnexpectedEof"

\* the plaintext of the records whose last wire byte the reader has taken
RECURSIVE PlainTaken(_)
PlainTaken(i) ==
    IF i = 0 THEN 0
    ELSE IF rpos >= RecordStart(i) + RecordWire(i)
    THEN PlainUpTo(i) + records[i]
    ELSE PlainTaken(i - 1)

\* plaintext the reader has decrypted and not yet handed to the caller
Surplus == PlainTaken(Len(records)) - Len(delivered)

\* C13: while plaintext of a decrypted record is retained, a read takes no
\* byte from the wire and decrypts nothing: it succeeds and hands over the
\* next retained bytes, in the order they were written, at least one and no
\* more than are retained.
C13_LeftoverFirst ==
    [][(/\ rcv.method \in {"Aead", "Aead2022"}
        /\ Surplus > 0
        /\ (rcv' # rcv \/ lastR' # lastR \/ delivered' # delivered))
       => (/\ lastR'.res = "Ok"
           /\ lastR'.n >= 1
           /\ lastR'.n <= Surplus
           /\ rpos' = rpos
           /\ decNonces' = decNonces
           /\ delivered' = delivered \o SubSeq(assembled, Len(delivered) + 1,
                                               Len(delivered) + lastR'.n))]_vars

C13_Witness ==
    /\ rcv.method = "Aead"
    /\ Len(records) >= 1
    /\ records[1] = 2
    /\ rpos = RecordStart(1) + RecordWire(1)
    /\ delivered = assembled
    /\ lastR.res = "Ok"
    /\ lastR.n = 1

(***************************************************************************)
(* Properties of the AEAD reader with a peer that chooses the length.      *)
(***************************************************************************)
\* the last wire byte of the sealed length of the forged record
ForgedLengthEnd == forge.at + 2 + TagLen - 1

C15_AddressFirstOnce ==
    pcs.state # "Unset" =>
        /\ IsPrefix(assembled, pcs.addr \o written \o wbuf)
        /\ pcs.state = "Connected" => IsPrefix(pcs.addr \o written, assembled)
        /\ pcs.state # "Connected" => written = <<>>
        /\ IsPrefix(delivered, assembled)
        /\ (pcs.state = "Connected" /\ Quiescent) => delivered = pcs.addr \o written

C15_Witness ==
    /\ pcs.state = "Connected"
    /\ snd.method = "Aead"
    /\ Len(records) = 2
    /\ Quiescent
    /\ Len(written) = MaxPlain
    /\ delivered = pcs.addr \o written

(***************************************************************************)
(* Properties of CryptoStream: the request nonce, construction, halves.    *)
(***************************************************************************)
\* C16: set_request_nonce on a stream whose cipher is None, Stream or Aead
\* returns to its caller: nothing aborts.
C16_SetRequestNonceReturns ==
    snd.method \in {"None", "Stream", "Aead"} => ~snd.panicked

\* every write a caller can issue in this state
WritesNow ==
    {CryptoStream_poll_write_encrypted(snd, buf, cap) :
     buf \in (IF wbuf = <<>> THEN WriteBufs ELSE {wbuf}), cap \in SockCaps}

\* C17: on an AEAD-2022 server stream, as long as set_request_salt has not
\* been called every poll_write_encrypted returns NotPermitted, the socket
\* has been given no byte and the writer is as it was; once it has been
\* called every write is taken (Ok or Pending).
C17_ServerNeedsRequestSalt ==
    (snd.method = "Aead2022" /\ snd.ty = "Server") =>
        /\ ~snd.enc.request_salt.some =>
               /\ sock = <<>>
               /\ assembled = <<>>
               /\ written = <<>>
               /\ lastW.res \in {"none", "NotPermitted"}
               /\ \A r \in WritesNow :
                      r.res = "NotPermitted" /\ r.out = <<>> /\ r.n = 0 /\ r.w = snd.enc
        /\ snd.enc.request_salt.some =>
               \A r \in WritesNow : r.res \in {"Ok", "Pending"}
        /\ lastW.res \in {"Ok", "Pending"} => snd.enc.request_salt.some

C17_Witness ==
    /\ snd.method = "Aead2022"
    /\ snd.ty = "Server"
    /\ ~snd.enc.request_salt.some
    /\ lastW.res = "NotPermitted"

\* what from_stream has to have built for a cipher of the stream's category
Constructed(cs) ==
    IF cs.method = "None"
    THEN /\ cs.dec = NoReader
         /\ cs.enc = NoWriter
         /\ cs.gens = 0
         /\ CryptoStream_sent_nonce(cs) = <<>>
    ELSE /\ cs.dec.kind = cs.method
         /\ cs.enc.kind = cs.method
         /\ cs.gens = 1
         /\ cs.check_repeat
         /\ Len(cs.generated) = (IF cs.method = "Stream" THEN IvLen ELSE SaltLen)
         /\ CryptoStream_sent_nonce(cs) = cs.generated

\* C18: a stream built for the None cipher has the pass-through reader and
\* writer and generate_nonce was not called; for any other cipher
\* generate_nonce was called once, with check_repeat = true, for iv_len
\* (Stream) or salt_len (Aead, Aead2022) bytes, and the writer holds the
\* value it returned.
C18_FromStream ==
    /\ snd.method # "Unset" => Constructed(snd)
    /\ rcv.method # "Unset" => Constructed(rcv)

C18_Witness ==
    /\ snd.method = "Stream"
    /\ snd.gens = 1
    /\ Len(sock) >= IvLen
    /\ SubSeq(sock, 1, IvLen) = snd.generated

\* every write the write half and the unsplit stream can be given, and every
\* read the read half and the unsplit stream can be given, come out the same
HalvesActAlike ==
    /\ \A buf \in (IF wbuf = <<>> THEN WriteBufs ELSE {wbuf}), cap \in SockCaps :
           CryptoStreamWriteHalf_poll_write_encrypted(sndHalves.w, buf, cap)
               = CryptoStream_poll_write_encrypted(snd, buf, cap)
    /\ \A k \in SockCaps, cap \in 1..MaxOut :
           LET bytes == SubSeq(sock, rpos + 1, Min(Len(sock), rpos + k))
           IN  CryptoStreamReadHalf_poll_read_decrypted(rcvHalves.r, bytes, cap, FALSE)
                   = CryptoStream_poll_read_decrypted(rcv, bytes, cap, FALSE)

\* C19: from the split on, at whatever point it was made, the read half
\* holds the reader and the write half the writer that the unsplit stream
\* holds after the same calls, every further call gives the same result and
\* the same bytes on both, and the plaintext read through the halves is the
\* plaintext written through them.
C19_SplitPreserves ==
    sndHalves.split =>
        /\ sndHalves.w.enc = snd.enc
        /\ sndHalves.r.dec = snd.dec
        /\ sndHalves.w.method = snd.method /\ sndHalves.r.method = snd.method
        /\ rcvHalves.r.dec = rcv.dec
        /\ rcvHalves.w.enc = rcv.enc
        /\ rcvHalves.w.method = rcv.method /\ rcvHalves.r.method = rcv.method
        /\ CryptoStreamWriteHalf_sent_nonce(sndHalves.w) = CryptoStream_sent_nonce(snd)
        /\ CryptoStreamReadHalf_nonce(rcvHalves.r) = CryptoStream_received_nonce(rcv)
        /\ HalvesActAlike
        /\ IsPrefix(delivered, assembled)
        /\ Quiescent => delivered = written

C19_Witness ==
    /\ sndHalves.split
    /\ sndHalves.used
    /\ snd.method = "Aead"
    /\ Len(records) = 2
    /\ Quiescent
    /\ delivered = written
    /\ Len(written) = MaxPlain

C21_VariantConstant ==
    [][stream.variant # "None" =>
           /\ stream'.variant = stream.variant
           /\ stream'.is_dns = stream.is_dns
           /\ is_proxied(stream') = is_proxied(stream)]_vars

C21_Witness ==
    /\ is_proxied(stream)
    /\ stream.is_dns
    /\ call.op = "poll_shutdown"
    /\ call.result = "Err"
    /\ dnsByte # <<>>

\* C22: a stream made by connect_bypassed, by connect_proxied or by connect
\* has is_dns = true iff the target port is 53, and an empty DNS buffer.
C22_IsDnsIffPort53 ==
    (call.op \in {"connect", "connect_bypassed", "connect_proxied"}
        /\ call.result = "Ok") =>
        /\ stream.is_dns <=> call.target.port = DnsPort
        /\ dnsByte = <<>>

C22_Witness ==
    /\ call.op = "connect_proxied"
    /\ call.result = "Ok"
    /\ call.target.port = DnsPort
    /\ stream.is_dns
    /\ dnsByte = <<>>

\* C23: when the direct connection of connect_bypassed, or of connect on a
\* bypassed target, fails, the error is returned, no stream is produced,
\* report_failure is not invoked, and no proxied connection is attempted.
C23_BypassFailureSurfaced ==
    ((call.op = "connect_bypassed"
         \/ (call.op = "connect" /\ check_target_bypassed(call.target)))
        /\ ~call.ok) =>
        /\ call.result = "Err"
        /\ stream = NoStream
        /\ call.reports = 0
        /\ call.proxied = 0
        /\ call.direct = 1

C23_Witness ==
    /\ call.op = "connect"
    /\ check_target_bypassed(call.target)
    /\ ~call.ok
    /\ call.result = "Err"
    /\ call.reports = 0

\* C24: the lock of para.dnsByte is never held while its holder waits for
\* another lock.
C24_DnsLockNotHeldAcrossWait ==
    ~(dnsHolder = "reader" /\ rpc = "blocked_acl")

\* C25: the sniffer is fed exactly the bytes the current poll_read added to
\* the caller's buffer, not the bytes that were in its filled part before.
C25_OnlyNewBytes ==
    rd.sniffed => rd.fed = rd.data

\* C26: on a port-53 stream every successful read of at least one byte
\* appends all the bytes it delivered, length prefix included, to the DNS
\* buffer, reads of 1 or 2 bytes too.
C26_AppendsEveryByte ==
    (stream.is_dns /\ rd.under = "Ok" /\ rd.result = "Ok" /\ Len(rd.data) >= 1) =>
        rd.appended = rd.data

\* C27: on a port-53 stream a successful read that delivers fewer than
\* 2 + len bytes, len being the length its first two bytes announce, does
\* not panic or fail: the sniffer takes no message from it and the read
\* returns what the underlying read returned.
C27_ShortReadHarmless ==
    (rd.sniffed /\ rd.pre = <<>> /\ rpc # "blocked_acl"
        /\ Len(rd.data) < 2 + rd.data[1] * 256 + rd.data[2]) =>
        /\ rd.result = "Ok"
        /\ rd.handed = <<>>

\* C28: after the sniffer has processed a read the DNS buffer holds no
\* complete message (fewer than 2 bytes, or fewer than 2 + len bytes of its
\* own leading length prefix), and what was handed to the ACL is no longer
\* in the buffer, answered or not.
C28_NoCompleteMessageLeft ==
    (stream.is_dns /\ rpc = "idle" /\ rd.result = "Ok") =>
        /\ Len(dnsByte) < 2 \/ Len(dnsByte) < 2 + dnsByte[1] * 256 + dnsByte[2]
        /\ rd.handed # <<>> /\ rd.handed[1] # <<>> => dnsByte # rd.handed[1]

\* C29: when the ACL has answered a message the DNS buffer is empty right
\* after that sniff step; with no ACL installed a sniff step that reaches
\* the ACL hands it nothing, leaves the buffer with what was appended, and
\* the read returns Ready(Ok).
C29_AnsweredClears ==
    (rd.sniffed /\ rpc = "idle") =>
        /\ rd.answered => (dnsByte = <<>> /\ aclSome /\ rd.handed # <<>>)
        /\ ~aclSome => (rd.handed = <<>> /\ ~rd.answered /\ rd.result = "Ok"
                        /\ dnsByte = rd.byte0 \o rd.appended)

C29_Witness ==
    /\ rd.sniffed
    /\ rd.answered
    /\ rd.byte0 # <<>>
    /\ rd.appended # <<>>
    /\ dnsByte = <<>>
    /\ rd.result = "Ok"

\* the operations that only delegate
Delegating == {"local_addr", "set_nodelay", "poll_write", "poll_flush",
               "poll_shutdown", "poll_write_vectored"}

\* a step of poll_read that returns, a step of an operation that delegates
ReadStep == rd' # rd /\ rd'.under # "none" /\ rd'.result # "none"
DelegatedStep == call'.op \in Delegating /\ (call' # call \/ rd' # rd)

C31_PollReadReturns ==
    rpc = "blocked_acl" =>
        \/ aclHolder = "none"
        \/ aclHolder = "other" /\ free_threads(workers, rpc) > 0

\* C32: from from_stream on, across every write, read, shutdown and
\* set_request_nonce, sent_nonce() of each stream is the value generate_nonce
\* returned at construction (empty for the None cipher), it is what the
\* stream puts first on the wire, and the write half of into_split at that
\* point reports the same value.
C32_SentNonceFixed ==
    [][\A i \in 1..2 :
           LET old == << snd, rcv >>[i]
               new == << snd', rcv' >>[i]
           IN  new.method # "Unset" =>
                   /\ CryptoStream_sent_nonce(new) = new.generated
                   /\ new.method = "None" => CryptoStream_sent_nonce(new) = <<>>
                   /\ old.method # "Unset" =>
                          CryptoStream_sent_nonce(new) = CryptoStream_sent_nonce(old)
                   /\ CryptoStreamWriteHalf_sent_nonce(into_split(new).w)
                          = CryptoStream_sent_nonce(new)
                   /\ i = 1 /\ sock' # <<>> =>
                          IsPrefix(SubSeq(sock', 1, Min(Len(sock'), Len(new.generated))),
                                   CryptoStream_sent_nonce(new))]_vars

C32_Witness ==
    /\ snd.method = "Aead2022"
    /\ snd.ty = "Server"
    /\ snd.enc.request_salt.some
    /\ wireEof
    /\ Len(written) = MaxPlain
    /\ delivered = written
    /\ CryptoStream_sent_nonce(snd) = snd.generated
    /\ SubSeq(sock, 1, SaltLen) = snd.generated

\* C33: a call of set_request_nonce_with_received made before the reader has
\* the peer's salt returns false and changes nothing; on an AEAD-2022 stream
\* a call made once the reader has it returns true and leaves the writer
\* with that salt as its request salt and nothing else changed, the salt is
\* the one the peer's writer sent, and it is what a server's first record
\* carries in its header.
C33_EchoesReceivedSalt ==
    [][(rcv.method # "Unset" /\ (echo' # echo \/ rcv'.enc # rcv.enc)) =>
           LET nonce == CryptoStream_received_nonce(rcv)
           IN  IF ~nonce.some
               THEN echo' = "false" /\ rcv' = rcv
               ELSE rcv.method = "Aead2022" =>
                        /\ echo' = "true"
                        /\ rcv' = [rcv EXCEPT !.enc.request_salt = SomeNonce(nonce.val)]
                        /\ nonce.val = CryptoStream_sent_nonce(snd)
                        /\ rcv.ty = "Server" =>
                               SubSeq(aead2022_header(rcv'.enc, <<>>), 3, 2 + SaltLen)
                                   = CryptoStream_sent_nonce(snd)]_vars

C33_Witness ==
    /\ echo = "true"
    /\ rcv.method = "Aead2022"
    /\ rcv.ty = "Server"
    /\ rcv.enc.request_salt = SomeNonce(CryptoStream_sent_nonce(snd))
    /\ delivered # <<>>

\* the address TunnelUdpServer::new is to be given
udp_bind_addr(b) == IF b.udp_addr # "None" THEN b.udp_addr ELSE b.client_addr

\* C34: once build has returned, it has returned a Tunnel exactly if no
\* server it had to create failed; the Tunnel has a TCP server exactly if
\* the mode enables TCP and a UDP server exactly if it enables UDP; the mode
\* is TcpOnly if set_mode was never called; whenever the UDP server was
\* created it was given the address of set_udp_bind_addr, or the client
\* address if none was set; and a build that failed holds no server.
C34_BuildByMode ==
    tunnel.result # "none" =>
        LET tcp_failed == enable_tcp(builder.mode) /\ ~tunnel.tcp_ok
            udp_failed == enable_udp(builder.mode) /\ ~tunnel.udp_ok
        IN  /\ ~builder.mode_set => builder.mode = "TcpOnly"
            /\ tunnel.result = "Err" <=> (tcp_failed \/ udp_failed)
            /\ tunnel.result = "Err" => ~tunnel.tcp_server /\ ~tunnel.udp_server
            /\ tunnel.result = "Ok" =>
                   /\ tunnel.tcp_server <=> enable_tcp(builder.mode)
                   /\ tunnel.udp_server <=> enable_udp(builder.mode)
                   /\ tunnel.tcp_new = (IF enable_tcp(builder.mode) THEN 1 ELSE 0)
                   /\ tunnel.udp_new = (IF enable_udp(builder.mode) THEN 1 ELSE 0)
            /\ tunnel.udp_new = 1 =>
                   /\ enable_udp(builder.mode)
                   /\ tunnel.udp_bind = udp_bind_addr(builder)
            /\ tunnel.tcp_new = 1 => enable_tcp(builder.mode)

C34_Witness ==
    /\ tunnel.result = "Ok"
    /\ builder.mode = "TcpAndUdp"
    /\ builder.client_addr = "a1"
    /\ builder.udp_addr = "a2"
    /\ tunnel.tcp_server
    /\ tunnel.udp_server
    /\ tunnel.udp_bind = "a2"

\* true is on the stop channel
TrueSent == \E i \in 1..Len(chan) : chan[i]

\* what holds of the stop protocol in every state: the callback was called
\* once by the time anything is served, main has returned after a valid
\* configuration only on true or on the last sender's drop, and a false
\* taken from the channel has not made it return
StopProtocol ==
    /\ launch.stops <= 1
    /\ launch.pc \in {"signalled", "created", "waiting"} => launch.stops = 1
    /\ serverTask.state # "none" => launch.stops = 1
    /\ launch.pc \in {"start", "configured", "built"} =>
           launch.stops = 0 /\ chan = <<>> /\ senders = 0
    /\ (launch.pc = "returned" /\ launch.mode # "none") =>
           \/ launch.got = "true"
           \/ launch.got = "disconnected" /\ senders = 0 /\ chan = <<>>
    /\ launch.got = "false" => launch.pc \in {"waiting", "exited"}

\* the call of the callback hands over the one sender of an empty channel,
\* before the server task exists
StopCalled ==
    launch'.stops # launch.stops =>
        /\ launch'.stops = 1
        /\ chan' = <<>>
        /\ senders' = 1
        /\ serverTask'.state = "none"

\* C35 as stated: the stop protocol holds, and once true is on the channel
\* main eventually returns.
C35_StopThenReturn ==
    /\ []StopProtocol
    /\ [][StopCalled]_vars
    /\ (TrueSent ~> (launch.pc = "returned"))

\* C35, amended: the stop protocol holds, and once true is on the channel
\* main eventually returns, unless the process ends first: by the panic of
\* expect("create local"), or by process::exit in the server task.
C35_StopThenReturnOrEnd ==
    /\ []StopProtocol
    /\ [][StopCalled]_vars
    /\ (TrueSent ~> (launch.pc \in {"returned", "panicked", "exited"}))

C35_Witness ==
    /\ launch.pc = "returned"
    /\ launch.got = "true"
    /\ launch.stops = 1
    /\ launch.mode = "MultiThread"
    /\ serverTask.served > 0
    /\ senders > 0

\* C36: while main waits for the stop signal, the spawned server task has a
\* step to take, whatever the runtime mode.
C36_ServerKeepsRunning ==
    (launch.pc = "waiting" /\ serverTask.state = "spawned") =>
        ENABLED (ServerRun \/ ServerExit \/ ServerAbort)

=============================================================================
